---- MODULE Spec2Model ----
(***************************************************************************)
(* RetailOps MCP: the LangGraph orchestrator (client/orchestrator.py) and  *)
(* the decision logic of the forecasting, replenishment, pricing and       *)
(* catalog enricher servers.                                               *)
(*                                                                         *)
(* Numbers.  Python floats are modelled as exact rationals <<num, den>>    *)
(* (den > 0, lowest terms); round(x, k) is round-half-even on the exact    *)
(* value.  Percentages and multipliers of the static tables are given as   *)
(* rationals as well.  A Python dict is a function whose domain is the set *)
(* of keys present; Python None is the empty tuple and a value v that may  *)
(* also be None is carried as <<v>>.                                       *)
(***************************************************************************)
EXTENDS Integers, Sequences, FiniteSets, TLC

None == <<>>
Some(v) == <<v>>
Val(o) == o[1]

\* dict[k] = v on a copy of d
Put(d, k, v) == (k :> v) @@ d

\* {}
EmptyDict == [k \in {} |-> k]

\* d.get(k, default)
Get(d, k, default) == IF k \in DOMAIN d THEN d[k] ELSE default

----------------------------------------------------------------------------
\* Exact rational arithmetic standing for Python float arithmetic.

Abs(n) == IF n < 0 THEN -n ELSE n

RECURSIVE Gcd(_, _)
Gcd(a, b) == IF b = 0 THEN a ELSE Gcd(b, a % b)

Rat(n, d) ==
    LET s == IF d < 0 THEN -1 ELSE 1
        g == Gcd(Abs(n), Abs(d))
    IN  <<(s * n) \div g, (s * d) \div g>>

RInt(n) == <<n, 1>>

\* the operations cancel common factors before they multiply
RAdd(a, b) ==
    LET g == Gcd(a[2], b[2])
    IN  Rat(a[1] * (b[2] \div g) + b[1] * (a[2] \div g), (a[2] \div g) * b[2])

RNeg(a) == <<-a[1], a[2]>>
RSub(a, b) == RAdd(a, RNeg(b))

RMul(a, b) ==
    LET g1 == Gcd(Abs(a[1]), b[2])
        g2 == Gcd(Abs(b[1]), a[2])
    IN  Rat((a[1] \div g1) * (b[1] \div g2), (a[2] \div g2) * (b[2] \div g1))

\* b # 0
RDiv(a, b) == RMul(a, IF b[1] < 0 THEN <<-b[2], -b[1]>> ELSE <<b[2], b[1]>>)

RLt(a, b) ==
    LET g == Gcd(a[2], b[2])
    IN  a[1] * (b[2] \div g) < b[1] * (a[2] \div g)

RLe(a, b) == ~RLt(b, a)
RMin(a, b) == IF RLt(b, a) THEN b ELSE a
RMax(a, b) == IF RLt(a, b) THEN b ELSE a
RIsZero(a) == a[1] = 0

\* round(n / d) for d > 0: nearest integer, ties to the even one
RoundHalfEven(n, d) ==
    LET q == n \div d
        r == n % d
    IN  IF 2 * r < d THEN q
        ELSE IF 2 * r > d THEN q + 1
        ELSE IF q % 2 = 0 THEN q ELSE q + 1

\* round(x, k): the result is a rational with denominator dividing 10^k
Round(x, scale) == Rat(RoundHalfEven(x[1] * scale, x[2]), scale)

\* int(x): truncation toward zero
Trunc(x) == IF x[1] >= 0 THEN x[1] \div x[2] ELSE -((-x[1]) \div x[2])

----------------------------------------------------------------------------
\* Forecasting server (servers/forecasting/server.py) and its sales history
\* (servers/forecasting/data/generate_sales.py).

\* Category specs: name -> <<min_daily, max_daily>>
categories_spec ==
    [ tv                 |-> <<8, 12>>,
      laptop             |-> <<5, 8>>,
      phone              |-> <<15, 20>>,
      kitchen_appliances |-> <<30, 40>>,
      fashion            |-> <<50, 70>>,
      groceries          |-> <<200, 250>>,
      electronics        |-> <<100, 130>> ]

\* number of days from start_date 2024-09-01 to end_date 2024-12-31, inclusive
HistoryDays == 122

\* the sales written for a category on day day_num (0-based) of the history
generated_sales(cat, day_num) ==
    LET min_val == categories_spec[cat][1]
        max_val == categories_spec[cat][2]
    IN  IF day_num % 3 = 0 THEN min_val
        ELSE IF day_num % 3 = 1 THEN max_val
        ELSE (min_val + max_val) \div 2

\* sales_history.csv as generate_sales.py writes it, read once when the server
\* starts: the sales of each category, oldest first
sales_history ==
    [ cat \in DOMAIN categories_spec |->
          [k \in 1..HistoryDays |-> generated_sales(cat, k - 1)] ]

\* sales_df[sales_df["category"] == category]["sales"]
sales_df(category) ==
    IF category \in DOMAIN sales_history THEN sales_history[category] ELSE <<>>

RECURSIVE SumSeq(_)
SumSeq(s) == IF s = <<>> THEN 0 ELSE Head(s) + SumSeq(Tail(s))

\* DataFrame.tail(days)
tail(s, days) ==
    IF Len(s) <= days THEN s ELSE SubSeq(s, Len(s) - days + 1, Len(s))

MovingAverageDays == 30

\* variant: the mean over the whole selection instead of its last days
moving_average_of_all(filtered) ==
    IF filtered = <<>> THEN None
    ELSE Some(Round(Rat(SumSeq(filtered), Len(filtered)), 100))

\* the body of simple_moving_average on the selected rows:
\* round(filtered.tail(days)["sales"].mean(), 2), None for an empty selection
moving_average(filtered) ==
    LET last_days == tail(filtered, MovingAverageDays)
    IN  IF filtered = <<>> THEN None
        ELSE Some(Round(Rat(SumSeq(last_days), Len(last_days)), 100))

\* variant: the mean of an empty selection taken as 0 instead of "no data"
simple_moving_average_empty_is_zero(category) ==
    LET filtered == sales_df(category)
        last_days == tail(filtered, MovingAverageDays)
    IN  IF filtered = <<>> THEN Some(RInt(0))
        ELSE Some(Round(Rat(SumSeq(last_days), Len(last_days)), 100))

simple_moving_average(category) == moving_average(sales_df(category))

\* The clock counts TicksPerDay ticks a day.  datetime.now() is read strictly
\* between two midnights: tick k is the instant (k + 1/2) / TicksPerDay days after
\* midnight of day 0.  An event date is midnight of its day.
TicksPerDay == 2
LookaheadDays == 180

\* the calendar day of a tick
day_of(today) == today \div TicksPerDay

\* variant: the difference rounded to the nearest day instead of floored, which
\* makes the answer depend on the time of day
days_until_rounded(e, today) ==
    (2 * TicksPerDay * e.date - (2 * today + 1) + TicksPerDay) \div (2 * TicksPerDay)

\* (event_date - today).days: timedelta.days is the floor of the difference
days_until(e, today) ==
    (2 * TicksPerDay * e.date - (2 * today + 1)) \div (2 * TicksPerDay)

RECURSIVE get_season_multiplier(_, _)
get_season_multiplier(events, today) ==
    IF events = <<>> THEN <<None, RInt(1)>>
    ELSE LET e == Head(events)
             d == days_until(e, today)
         IN  IF 0 <= d /\ d <= LookaheadDays
             THEN <<Some(e.name), e.multiplier>>
             ELSE get_season_multiplier(Tail(events), today)

get_historical_surge(surge_profiles, category, event_name) ==
    IF event_name # None /\ Val(event_name) \in DOMAIN surge_profiles
    THEN Get(surge_profiles[Val(event_name)], category, RInt(1))
    ELSE RInt(1)

\* llm: whether the language-model call answers; the text itself is not modelled
forecast_generate_narrative(llm) ==
    IF llm THEN "llm_text" ELSE "Narrative generation failed"

\* variant: the forecast scaled to the horizon asked for
getForecast_scaled_to_horizon(category, days_ahead, events, surge_profiles, today, llm) ==
    LET base == simple_moving_average(category)
        sm == get_season_multiplier(events, today)
        event_name == sm[1]
        season_mult == sm[2]
        hist_mult == get_historical_surge(surge_profiles, category, event_name)
        final_forecast ==
            Round(RMul(RMul(RMul(Val(base), season_mult), hist_mult),
                       Rat(days_ahead, MovingAverageDays)), 100)
    IN  IF base = None
        THEN [error |-> "No data found for category"]
        ELSE [ category               |-> category,
               base_forecast           |-> Val(base),
               seasonal_multiplier     |-> season_mult,
               historical_surge_factor |-> hist_mult,
               final_forecast          |-> final_forecast,
               event                   |-> event_name,
               narrative               |-> forecast_generate_narrative(llm) ]

\* days_ahead is accepted and not read
getForecast(category, days_ahead, events, surge_profiles, today, llm) ==
    LET base == simple_moving_average(category)
        sm == get_season_multiplier(events, today)
        event_name == sm[1]
        season_mult == sm[2]
        hist_mult == get_historical_surge(surge_profiles, category, event_name)
        final_forecast == Round(RMul(RMul(Val(base), season_mult), hist_mult), 100)
    IN  IF base = None
        THEN [error |-> "No data found for category"]
        ELSE [ category               |-> category,
               base_forecast           |-> Val(base),
               seasonal_multiplier     |-> season_mult,
               historical_surge_factor |-> hist_mult,
               final_forecast          |-> final_forecast,
               event                   |-> event_name,
               narrative               |-> forecast_generate_narrative(llm) ]

----------------------------------------------------------------------------
\* Replenishment server (servers/replenishment/server.py).  Each graph node is
\* an operator on the ReplenishmentState dict; a node that raises leaves the
\* key "exception" in the state and the nodes after it do not run.

Raise(state, what) == Put(state, "exception", what)
Raised(state) == "exception" \in DOMAIN state

multiplier_map == [low |-> Rat(11, 10), medium |-> Rat(125, 100), high |-> Rat(14, 10)]

demand_risk_node(state) ==
    LET volatility == state.input.forecast.demand_volatility
    IN  IF volatility \notin DOMAIN multiplier_map THEN Raise(state, "KeyError")
        ELSE Put(Put(state, "volatility_multiplier", multiplier_map[volatility]),
                 "explanation_factors", <<"demand volatility">>)

\* variant: an event on the last day of the lead time not counted as within it
festival_urgency_node_strictly_within(state) ==
    LET event == state.input.forecast.event
        lead_time == state.input.supplier.lead_time_days
    IN  IF event.days_to_event # None /\ Val(event.days_to_event) < lead_time
        THEN Put(Put(state, "festival_multiplier", Rat(12, 10)),
                 "explanation_factors",
                 Append(state.explanation_factors, "festival within lead time"))
        ELSE Put(state, "festival_multiplier", RInt(1))

festival_urgency_node(state) ==
    LET event == state.input.forecast.event
        lead_time == state.input.supplier.lead_time_days
    IN  IF event.days_to_event # None /\ Val(event.days_to_event) <= lead_time
        THEN Put(Put(state, "festival_multiplier", Rat(12, 10)),
                 "explanation_factors",
                 Append(state.explanation_factors, "festival within lead time"))
        ELSE Put(state, "festival_multiplier", RInt(1))

\* variant: the stock in transit not counted in the effective stock
inventory_runway_node_current_stock_only(state) ==
    LET inv == state.input.inventory
        avg_daily == state.input.forecast.avg_daily_demand
        effective_stock == inv.current_stock
        runway_days == RDiv(RInt(effective_stock), avg_daily)
    IN  IF RIsZero(avg_daily) THEN Raise(state, "ZeroDivisionError")
        ELSE Put(Put(state, "effective_stock", effective_stock),
                 "stock_runway_days", Round(runway_days, 10))

inventory_runway_node(state) ==
    LET inv == state.input.inventory
        avg_daily == state.input.forecast.avg_daily_demand
        effective_stock == inv.current_stock + inv.in_transit_stock
        runway_days == RDiv(RInt(effective_stock), avg_daily)
    IN  IF RIsZero(avg_daily) THEN Raise(state, "ZeroDivisionError")
        ELSE Put(Put(state, "effective_stock", effective_stock),
                 "stock_runway_days", Round(runway_days, 10))

safety_stock_node(state) ==
    LET avg_daily == state.input.forecast.avg_daily_demand
        lead_time == state.input.supplier.lead_time_days
        base == RMul(avg_daily, RInt(lead_time))
    IN  Put(state, "safety_stock",
            Round(RMul(RMul(base, state.volatility_multiplier),
                       state.festival_multiplier), 1)[1])

IntMax(a, b) == IF a >= b THEN a ELSE b

\* variant: the raw quantity returned without raising it to the supplier minimum
reorder_decision_node_ignoring_moq(state) ==
    LET demand == state.input.forecast.forecasted_demand
        effective_stock == state.effective_stock
        raw_qty == IntMax(0, Trunc(RSub(RAdd(demand, RInt(state.safety_stock)),
                                        RInt(effective_stock))))
    IN  Put(state, "reorder_qty", raw_qty)

reorder_decision_node(state) ==
    LET demand == state.input.forecast.forecasted_demand
        effective_stock == state.effective_stock
        moq == state.input.supplier.minimum_order_quantity
        raw_qty == IntMax(0, Trunc(RSub(RAdd(demand, RInt(state.safety_stock)),
                                        RInt(effective_stock))))
    IN  Put(state, "reorder_qty", IF raw_qty > 0 THEN IntMax(raw_qty, moq) ELSE raw_qty)

SoonRunwayDays == 30

timing_risk_node(state) ==
    LET lead_time == state.input.supplier.lead_time_days
        runway == state.stock_runway_days
        timed ==
            IF RLt(runway, RInt(lead_time))
            THEN Put(Put(state, "reorder_timing", "immediate"), "stockout_risk", "high")
            ELSE IF RLt(runway, RInt(SoonRunwayDays))
            THEN Put(Put(state, "reorder_timing", "soon"), "stockout_risk", "medium")
            ELSE Put(Put(state, "reorder_timing", "defer"), "stockout_risk", "low")
    IN  Put(timed, "explanation_factors",
            Append(state.explanation_factors, "stock runway"))

\* variant: the narrative node letting the failure of the call escape
replenishment_narrative_node_raising(state, llm) ==
    IF llm THEN Put(state, "narrative", "llm_text")
    ELSE Raise(state, "narrative generation failed")

replenishment_narrative_node(state, llm) ==
    Put(state, "narrative",
        IF llm THEN "llm_text" ELSE "Replenishment decision based on demand risk")

\* replenishment_graph: entry point, edges and nodes
replenishment_entry_point == "demand_risk"

replenishment_edge ==
    [ demand_risk |-> "festival", festival |-> "inventory", inventory |-> "safety",
      safety |-> "reorder", reorder |-> "timing", timing |-> "narrative",
      narrative |-> "return" ]

replenishment_run_node(n, state, llm) ==
    IF n = "demand_risk" THEN demand_risk_node(state)
    ELSE IF n = "festival" THEN festival_urgency_node(state)
    ELSE IF n = "inventory" THEN inventory_runway_node(state)
    ELSE IF n = "safety" THEN safety_stock_node(state)
    ELSE IF n = "reorder" THEN reorder_decision_node(state)
    ELSE IF n = "timing" THEN timing_risk_node(state)
    ELSE replenishment_narrative_node(state, llm)

\* the graph run from node n on: the node after an edge runs only when no
\* earlier node raised
RECURSIVE replenishment_run_from(_, _, _)
replenishment_run_from(n, state, llm) ==
    IF n = "return" \/ Raised(state) THEN state
    ELSE replenishment_run_from(replenishment_edge[n],
                                replenishment_run_node(n, state, llm), llm)

replenishment_graph_invoke(input, llm) ==
    replenishment_run_from(replenishment_entry_point, [input |-> input], llm)

\* the tool's answer, given the final state of the graph
replenishment_answer(result) ==
    IF Raised(result) THEN [exception |-> result.exception]
    ELSE [ reorder_qty    |-> result.reorder_qty,
           reorder_timing |-> result.reorder_timing,
           stockout_risk  |-> result.stockout_risk,
           narrative      |-> result.narrative ]

getReplenishmentDecision(input, llm) ==
    replenishment_answer(replenishment_graph_invoke(input, llm))

----------------------------------------------------------------------------
\* Pricing strategy server (servers/pricing-strategy/server.py).

load_category_data_node(state, elasticity_data, competitor_data) ==
    LET input == state.input
        category == input.category
        cat_elasticity == Get(elasticity_data, category, EmptyDict)
        cat_competitor == Get(competitor_data, category, EmptyDict)
        competitor_price ==
            Get(cat_competitor, "competitor_avg_price",
                Get(input, "current_price", RInt(1000)))
    IN  [ input                |-> input,
          category             |-> category,
          elasticity           |-> Get(cat_elasticity, "elasticity", Rat(-15, 10)),
          base_margin          |-> Get(cat_elasticity, "base_margin", Rat(20, 100)),
          min_margin           |-> Get(cat_elasticity, "min_margin", Rat(15, 100)),
          max_discount         |-> Get(cat_elasticity, "max_discount", Rat(20, 100)),
          competitor_price     |-> competitor_price,
          price_difference_pct |-> Get(cat_competitor, "price_difference_pct", RInt(0)),
          current_price        |->
              Get(input, "current_price", RMul(competitor_price, Rat(11, 10))),
          forecasted_demand    |-> Get(input, "forecasted_demand", RInt(100)),
          inventory_level      |-> Get(input, "inventory_level", RInt(200)),
          target_profit_pct    |-> Get(input, "target_profit_pct", RInt(0)),
          explanation_factors  |-> <<>> ]

analyze_competitor_position_node(state) ==
    LET price_diff == state.price_difference_pct
        position ==
            IF RLt(RInt(15), price_diff) THEN "overpriced"
            ELSE IF RLt(RInt(5), price_diff) THEN "slightly_high"
            ELSE IF RLt(price_diff, RInt(-5)) THEN "undervalued"
            ELSE "competitive"
    IN  Put(Put(state, "competitor_position", position),
            "explanation_factors", Append(state.explanation_factors, position))

calculate_elasticity_impact_node(state) ==
    Put(Put(state, "demand_elasticity_impact",
            Rat(Abs(state.elasticity[1]), state.elasticity[2])),
        "explanation_factors", Append(state.explanation_factors, "price elasticity"))

inventory_ratio_of(inventory, forecasted) ==
    IF RLt(RInt(0), forecasted) THEN RDiv(inventory, forecasted) ELSE RInt(1)

inventory_pressure_node(state) ==
    LET inventory_ratio ==
            inventory_ratio_of(state.inventory_level, state.forecasted_demand)
        factor ==
            IF RLt(RInt(2), inventory_ratio) THEN "high inventory levels (overstocked)"
            ELSE IF RLt(inventory_ratio, Rat(1, 2))
            THEN "low inventory levels (risk of stockout)"
            ELSE "inventory levels are balanced"
    IN  Put(state, "explanation_factors", Append(state.explanation_factors, factor))

\* Factor 1: competitor positioning
competitor_factor(state) ==
    LET current_price == state.current_price
        target_profit == state.target_profit_pct
        price_reduction == RMin(Rat(10, 100), state.max_discount)
        price_increase == RMin(Rat(5, 100), RDiv(target_profit, RInt(100)))
    IN  IF state.competitor_position = "overpriced"
        THEN [ recommended_price   |-> RMul(current_price, RSub(RInt(1), price_reduction)),
               price_change_pct    |-> RMul(RSub(RInt(0), price_reduction), RInt(100)),
               recommendation_type |-> "discount",
               factors             |-> <<"reduce price to match competition">> ]
        ELSE IF state.competitor_position = "undervalued" /\ RLt(RInt(0), target_profit)
        THEN [ recommended_price   |-> RMul(current_price, RAdd(RInt(1), price_increase)),
               price_change_pct    |-> RMul(price_increase, RInt(100)),
               recommendation_type |-> "increase",
               factors             |-> <<"increase price to improve margins">> ]
        ELSE [ recommended_price   |-> current_price,
               price_change_pct    |-> RInt(0),
               recommendation_type |-> "maintain",
               factors             |-> <<>> ]

\* variant: the clearance discount not capped by the category's max_discount
inventory_factor_uncapped(state, d) ==
    LET current_price == state.current_price
        target_profit == state.target_profit_pct
        inventory_ratio ==
            inventory_ratio_of(state.inventory_level, state.forecasted_demand)
        discount == Rat(8, 100)
        low_price == RMul(current_price, RSub(RInt(1), discount))
        increase ==
            RMin(Rat(5, 100),
                 IF RLt(RInt(0), target_profit) THEN RDiv(target_profit, RInt(100))
                 ELSE Rat(3, 100))
        high_price == RMul(current_price, RAdd(RInt(1), increase))
    IN  IF RLt(RInt(2), inventory_ratio)
        THEN IF RLt(low_price, d.recommended_price) \/ d.recommendation_type = "maintain"
             THEN [ recommended_price   |-> low_price,
                    price_change_pct    |-> RMul(RSub(RInt(0), discount), RInt(100)),
                    recommendation_type |-> "clearance",
                    factors |-> Append(d.factors, "discount to clear excess inventory") ]
             ELSE d
        ELSE IF RLt(inventory_ratio, Rat(1, 2))
        THEN IF RLt(d.recommended_price, high_price)
             THEN [ recommended_price   |-> high_price,
                    price_change_pct    |-> RMul(increase, RInt(100)),
                    recommendation_type |-> "premium",
                    factors |-> Append(d.factors, "premium pricing due to low stock") ]
             ELSE d
        ELSE d

\* variant: low inventory left without the premium increase
inventory_factor_without_premium(state, d) ==
    LET current_price == state.current_price
        inventory_ratio ==
            inventory_ratio_of(state.inventory_level, state.forecasted_demand)
        discount == RMin(Rat(8, 100), state.max_discount)
        low_price == RMul(current_price, RSub(RInt(1), discount))
    IN  IF RLt(RInt(2), inventory_ratio)
           /\ (RLt(low_price, d.recommended_price) \/ d.recommendation_type = "maintain")
        THEN [ recommended_price   |-> low_price,
               price_change_pct    |-> RMul(RSub(RInt(0), discount), RInt(100)),
               recommendation_type |-> "clearance",
               factors |-> Append(d.factors, "discount to clear excess inventory") ]
        ELSE d

\* Factor 2: inventory pressure
inventory_factor(state, d) ==
    LET current_price == state.current_price
        target_profit == state.target_profit_pct
        inventory_ratio ==
            inventory_ratio_of(state.inventory_level, state.forecasted_demand)
        discount == RMin(Rat(8, 100), state.max_discount)
        low_price == RMul(current_price, RSub(RInt(1), discount))
        increase ==
            RMin(Rat(5, 100),
                 IF RLt(RInt(0), target_profit) THEN RDiv(target_profit, RInt(100))
                 ELSE Rat(3, 100))
        high_price == RMul(current_price, RAdd(RInt(1), increase))
    IN  IF RLt(RInt(2), inventory_ratio)
        THEN IF RLt(low_price, d.recommended_price) \/ d.recommendation_type = "maintain"
             THEN [ recommended_price   |-> low_price,
                    price_change_pct    |-> RMul(RSub(RInt(0), discount), RInt(100)),
                    recommendation_type |-> "clearance",
                    factors |-> Append(d.factors, "discount to clear excess inventory") ]
             ELSE d
        ELSE IF RLt(inventory_ratio, Rat(1, 2))
        THEN IF RLt(d.recommended_price, high_price)
             THEN [ recommended_price   |-> high_price,
                    price_change_pct    |-> RMul(increase, RInt(100)),
                    recommendation_type |-> "premium",
                    factors |-> Append(d.factors, "premium pricing due to low stock") ]
             ELSE d
        ELSE d

\* Factor 3: target profit optimization; required_margin = 1 divides by zero
target_profit_factor(state, d) ==
    LET current_price == state.current_price
        target_profit == state.target_profit_pct
        current_margin == state.base_margin
        required_margin == RAdd(RDiv(target_profit, RInt(100)), state.min_margin)
        margin_gap == RSub(required_margin, current_margin)
        price_increase ==
            RMin(RDiv(margin_gap, RSub(RInt(1), required_margin)), Rat(10, 100))
    IN  IF RLt(RInt(0), target_profit) /\ d.recommendation_type = "maintain"
           /\ RLt(current_margin, required_margin)
        THEN IF RIsZero(RSub(RInt(1), required_margin))
             THEN [exception |-> "ZeroDivisionError"]
             ELSE [ recommended_price   |-> RMul(current_price, RAdd(RInt(1), price_increase)),
                    price_change_pct    |-> RMul(price_increase, RInt(100)),
                    recommendation_type |-> "optimize",
                    factors |-> Append(d.factors, "optimize price to meet profit target") ]
        ELSE d

cost_of(state) == RMul(state.current_price, RSub(RInt(1), state.base_margin))

min_price_of(state) == RDiv(cost_of(state), RSub(RInt(1), state.min_margin))

\* Ensure we don't go below minimum margin; min_margin = 1 divides by zero.
\* An exception raised by factor 3 has ended the node before.
price_floor(state, d) ==
    LET current_price == state.current_price
        min_price == min_price_of(state)
    IN  IF "exception" \in DOMAIN d THEN d
        ELSE IF RIsZero(RSub(RInt(1), state.min_margin))
        THEN [exception |-> "ZeroDivisionError"]
        ELSE IF RLt(d.recommended_price, min_price)
        THEN IF RIsZero(current_price)
             THEN [exception |-> "ZeroDivisionError"]
             ELSE [ recommended_price   |-> min_price,
                    price_change_pct    |->
                        RMul(RDiv(RSub(min_price, current_price), current_price),
                             RInt(100)),
                    recommendation_type |-> "floor",
                    factors |-> Append(d.factors,
                                       "price adjusted to maintain minimum margin") ]
        ELSE d

\* Decision logic: the three factors in order, then the floor
price_decision(state) ==
    price_floor(state,
        target_profit_factor(state,
            inventory_factor(state, competitor_factor(state))))

\* ((new - old) / old) * 100 if old > 0 else 0
pct_change(new, old) ==
    IF RLt(RInt(0), old) THEN RMul(RDiv(RSub(new, old), old), RInt(100)) ELSE RInt(0)

\* new_demand = forecasted_demand * (1 + elasticity * price_change_pct / 100)
new_demand_of(state, d) ==
    RMul(state.forecasted_demand,
         RAdd(RInt(1), RMul(state.elasticity, RDiv(d.price_change_pct, RInt(100)))))

\* new_profit = recommended_price * new_demand * new_margin
new_profit_of(state, recommended_price, new_demand) ==
    LET new_margin ==
            IF RLt(RInt(0), recommended_price)
            THEN RSub(RInt(1), RDiv(cost_of(state), recommended_price))
            ELSE state.base_margin
    IN  RMul(RMul(recommended_price, new_demand), new_margin)

\* Calculate expected impacts and write the decision d to the state
expected_impacts(state, d, new_demand, current_revenue) ==
    LET expected_demand_change ==
            RMul(state.elasticity, RDiv(d.price_change_pct, RInt(100)))
        new_revenue == RMul(d.recommended_price, new_demand)
        current_profit == RMul(current_revenue, state.base_margin)
        new_profit == new_profit_of(state, d.recommended_price, new_demand)
    IN  [ recommended_price       |-> Round(d.recommended_price, 100),
          price_change_pct        |-> Round(d.price_change_pct, 100),
          expected_demand_change  |-> Round(RMul(expected_demand_change, RInt(100)), 10),
          expected_revenue_change |-> Round(pct_change(new_revenue, current_revenue), 10),
          expected_profit_change  |-> Round(pct_change(new_profit, current_profit), 10),
          recommendation_type     |-> d.recommendation_type,
          explanation_factors     |-> state.explanation_factors \o d.factors ]
        @@ state

\* the node, given its decision d
pricing_decision_write(state, d) ==
    IF "exception" \in DOMAIN d THEN Raise(state, d.exception)
    ELSE expected_impacts(state, d, new_demand_of(state, d),
                          RMul(state.current_price, state.forecasted_demand))

\* variant: the expected demand change taken from the price change of the
\* adjustment rules, before the floor
pricing_decision_node_impact_before_floor(state) ==
    IF "exception" \in DOMAIN price_decision(state)
    THEN Raise(state, price_decision(state).exception)
    ELSE Put(pricing_decision_write(state, price_decision(state)),
             "expected_demand_change",
             Round(RMul(state.elasticity,
                        target_profit_factor(state,
                            inventory_factor(state,
                                competitor_factor(state))).price_change_pct), 10))

pricing_decision_node(state) == pricing_decision_write(state, price_decision(state))

pricing_narrative_node(state, llm) ==
    Put(state, "narrative", IF llm THEN "llm_text" ELSE "Recommended pricing strategy")

\* pricing_graph: entry point, edges and nodes
pricing_entry_point == "load_data"

pricing_edge ==
    [ load_data |-> "competitor_analysis", competitor_analysis |-> "elasticity_analysis",
      elasticity_analysis |-> "inventory_analysis",
      inventory_analysis |-> "pricing_decision", pricing_decision |-> "narrative",
      narrative |-> "return" ]

pricing_run_node(n, state, elasticity_data, competitor_data, llm) ==
    IF n = "load_data"
    THEN load_category_data_node(state, elasticity_data, competitor_data)
    ELSE IF n = "competitor_analysis" THEN analyze_competitor_position_node(state)
    ELSE IF n = "elasticity_analysis" THEN calculate_elasticity_impact_node(state)
    ELSE IF n = "inventory_analysis" THEN inventory_pressure_node(state)
    ELSE IF n = "pricing_decision" THEN pricing_decision_node(state)
    ELSE pricing_narrative_node(state, llm)

\* the graph run from node n on: the node after an edge runs only when no
\* earlier node raised
RECURSIVE pricing_run_from(_, _, _, _, _)
pricing_run_from(n, state, elasticity_data, competitor_data, llm) ==
    IF n = "return" \/ Raised(state) THEN state
    ELSE pricing_run_from(pricing_edge[n],
                          pricing_run_node(n, state, elasticity_data, competitor_data,
                                           llm),
                          elasticity_data, competitor_data, llm)

pricing_graph_invoke(input, elasticity_data, competitor_data, llm) ==
    pricing_run_from(pricing_entry_point, [input |-> input], elasticity_data,
                     competitor_data, llm)

\* the tool's answer, given the final state of the graph
pricing_answer(result) ==
    IF Raised(result) THEN [exception |-> result.exception]
    ELSE [ category                |-> result.category,
           current_price           |-> result.current_price,
           recommended_price       |-> result.recommended_price,
           price_change_pct        |-> result.price_change_pct,
           recommendation_type     |-> result.recommendation_type,
           expected_demand_change  |-> result.expected_demand_change,
           expected_revenue_change |-> result.expected_revenue_change,
           expected_profit_change  |-> result.expected_profit_change,
           narrative               |-> result.narrative,
           explanation_factors     |-> result.explanation_factors ]

getPricingStrategy(input, elasticity_data, competitor_data, llm) ==
    pricing_answer(pricing_graph_invoke(input, elasticity_data, competitor_data, llm))

----------------------------------------------------------------------------
\* Catalog enricher server (servers/catalog-enricher/server.py).
\*
\* Text (Python's str methods and the re patterns the server uses).  A Python
\* str the server computes with (product names, brands,
\* categories, descriptions, the replies of the language model) is the sequence
\* of its characters, so that strip, split, lower, title, startswith and the
\* substring and regular-expression searches are computed as Python computes
\* them.  The reasoning entries and the narrative, which nothing reads, are
\* plain labels.

UpperLetters ==
    << "A", "B", "C", "D", "E", "F", "G", "H", "I", "J", "K", "L", "M",
       "N", "O", "P", "Q", "R", "S", "T", "U", "V", "W", "X", "Y", "Z" >>

LowerLetters ==
    << "a", "b", "c", "d", "e", "f", "g", "h", "i", "j", "k", "l", "m",
       "n", "o", "p", "q", "r", "s", "t", "u", "v", "w", "x", "y", "z" >>

IsUpper(c) == \E i \in 1..26 : UpperLetters[i] = c
IsLower(c) == \E i \in 1..26 : LowerLetters[i] = c
IsLetter(c) == IsUpper(c) \/ IsLower(c)
IsDigit(c) == c \in {"0", "1", "2", "3", "4", "5", "6", "7", "8", "9"}
IsSpace(c) == c \in {" ", "\t", "\n"}

char_lower(c) ==
    IF IsUpper(c) THEN LowerLetters[CHOOSE i \in 1..26 : UpperLetters[i] = c] ELSE c

char_upper(c) ==
    IF IsLower(c) THEN UpperLetters[CHOOSE i \in 1..26 : LowerLetters[i] = c] ELSE c

\* str.lower()
lower(s) == [i \in 1..Len(s) |-> char_lower(s[i])]

\* str.title(): a letter is upper case after a character that is no letter and
\* lower case after a letter
title(s) ==
    [i \in 1..Len(s) |->
        IF i = 1 \/ ~IsLetter(s[i - 1]) THEN char_upper(s[i]) ELSE char_lower(s[i])]

\* s[i:], 0-based i
from(s, i) == SubSeq(s, i + 1, Len(s))

\* the number of characters at the start of s that are whitespace
RECURSIVE leading_spaces(_)
leading_spaces(s) ==
    IF s = <<>> \/ ~IsSpace(Head(s)) THEN 0 ELSE 1 + leading_spaces(Tail(s))

\* the number of characters at the start of s that are no whitespace
RECURSIVE leading_word(_)
leading_word(s) ==
    IF s = <<>> \/ IsSpace(Head(s)) THEN 0 ELSE 1 + leading_word(Tail(s))

\* the number of characters at the start of s that are digits
RECURSIVE leading_digits(_)
leading_digits(s) ==
    IF s = <<>> \/ ~IsDigit(Head(s)) THEN 0 ELSE 1 + leading_digits(Tail(s))

\* str.split(): the runs of characters between whitespace
RECURSIVE split(_)
split(s) ==
    IF from(s, leading_spaces(s)) = <<>> THEN <<>>
    ELSE << SubSeq(s, leading_spaces(s) + 1,
                   leading_spaces(s) + leading_word(from(s, leading_spaces(s)))) >>
         \o split(from(s, leading_spaces(s) + leading_word(from(s, leading_spaces(s)))))

\* sep.join(words)
RECURSIVE join(_, _)
join(sep, words) ==
    IF words = <<>> THEN <<>>
    ELSE IF Len(words) = 1 THEN Head(words)
    ELSE Head(words) \o sep \o join(sep, Tail(words))

\* str.strip()
strip(s) ==
    IF \A i \in 1..Len(s) : IsSpace(s[i]) THEN <<>>
    ELSE SubSeq(s, CHOOSE i \in 1..Len(s) :
                       ~IsSpace(s[i]) /\ \A j \in 1..(i - 1) : IsSpace(s[j]),
                   CHOOSE i \in 1..Len(s) :
                       ~IsSpace(s[i]) /\ \A j \in (i + 1)..Len(s) : IsSpace(s[j]))

\* str.startswith(prefix)
startswith(s, prefix) == Len(s) >= Len(prefix) /\ SubSeq(s, 1, Len(prefix)) = prefix

\* sub in s
contains(s, sub) ==
    \E i \in 1..(Len(s) - Len(sub) + 1) : SubSeq(s, i, i + Len(sub) - 1) = sub

\* a value is true in a condition: a text or list that is not empty
Truthy(v) == v # <<>>

\* the texts of the source
electronics == <<"e", "l", "e", "c", "t", "r", "o", "n", "i", "c", "s">>
groceries == <<"g", "r", "o", "c", "e", "r", "i", "e", "s">>
fashion == <<"f", "a", "s", "h", "i", "o", "n">>
kitchen_appliances == <<"k", "i", "t", "c", "h", "e", "n", "_", "a", "p", "p", "l", "i", "a", "n", "c", "e", "s">>
home_appliances == <<"h", "o", "m", "e", "_", "a", "p", "p", "l", "i", "a", "n", "c", "e", "s">>
beauty_personal_care == <<"b", "e", "a", "u", "t", "y", "_", "p", "e", "r", "s", "o", "n", "a", "l", "_", "c", "a", "r", "e">>
sports_fitness == <<"s", "p", "o", "r", "t", "s", "_", "f", "i", "t", "n", "e", "s", "s">>
general == <<"g", "e", "n", "e", "r", "a", "l">>
Unknown == <<"U", "n", "k", "n", "o", "w", "n">>
ProductColon == <<"P", "r", "o", "d", "u", "c", "t", ":", " ">>

load_input_node(state) ==
    Put(Put(Put(state, "product_name", Get(state.input, "product_name", <<>>)),
            "product_data", Get(state.input, "product_data", EmptyDict)),
        "reasoning", <<>>)

\* Remove common prefixes/suffixes
prefixes == << <<"N", "e", "w">>,
               <<"B", "e", "s", "t">>,
               <<"P", "r", "e", "m", "i", "u", "m">>,
               <<"S", "u", "p", "e", "r">> >>

\* the loop over prefixes from the k-th on
RECURSIVE remove_prefixes(_, _)
remove_prefixes(cleaned, k) ==
    IF k > Len(prefixes) THEN cleaned
    ELSE remove_prefixes(IF startswith(cleaned, prefixes[k] \o <<" ">>)
                         THEN from(cleaned, Len(prefixes[k]) + 1)
                         ELSE cleaned,
                         k + 1)

clean_name_node(state) ==
    Put(Put(state, "cleaned_name",
            remove_prefixes(join(<<" ">>, split(strip(state.product_name))), 1)),
        "reasoning", Append(state.reasoning, "cleaned product name"))

\* Fallback: simple keyword matching, the groups in the order of the source
keyword_groups ==
    << [ category |-> electronics,
         words |-> { <<"t", "v">>,
                    <<"t", "e", "l", "e", "v", "i", "s", "i", "o", "n">>,
                    <<"s", "c", "r", "e", "e", "n">> } ],
       [ category |-> electronics,
         words |-> { <<"l", "a", "p", "t", "o", "p">>,
                    <<"c", "o", "m", "p", "u", "t", "e", "r">>,
                    <<"n", "o", "t", "e", "b", "o", "o", "k">> } ],
       [ category |-> electronics,
         words |-> { <<"p", "h", "o", "n", "e">>,
                    <<"s", "m", "a", "r", "t", "p", "h", "o", "n", "e">>,
                    <<"m", "o", "b", "i", "l", "e">> } ],
       [ category |-> groceries,
         words |-> { <<"d", "e", "t", "e", "r", "g", "e", "n", "t">>,
                    <<"s", "o", "a", "p">>,
                    <<"s", "h", "a", "m", "p", "o", "o">>,
                    <<"p", "a", "c", "k">> } ],
       [ category |-> fashion,
         words |-> { <<"s", "h", "i", "r", "t">>,
                    <<"p", "a", "n", "t", "s">>,
                    <<"d", "r", "e", "s", "s">>,
                    <<"f", "a", "s", "h", "i", "o", "n">> } ] >>

\* the category of the first group one of whose words is in name_lower
fallback_category(name_lower) ==
    IF \E g \in 1..Len(keyword_groups) :
           \E word \in keyword_groups[g].words : contains(name_lower, word)
    THEN keyword_groups[CHOOSE g \in 1..Len(keyword_groups) :
                            /\ \E word \in keyword_groups[g].words :
                                   contains(name_lower, word)
                            /\ \A h \in 1..(g - 1) :
                                   \A word \in keyword_groups[h].words :
                                       ~contains(name_lower, word)].category
    ELSE general

valid_categories ==
    << electronics, groceries, fashion, kitchen_appliances, home_appliances,
       beauty_personal_care, sports_fitness, general >>

\* client tells whether the OpenRouter client is configured; reply is the
\* answer of the language model to the call the node makes, if it makes one:
\* [kind |-> "raise"] or [kind |-> "text", content |-> the message]
categorize_node(state, client, reply) ==
    IF /\ "category" \in DOMAIN state.product_data
       /\ Truthy(state.product_data.category)
    THEN Put(Put(state, "category", state.product_data.category),
             "reasoning", Append(state.reasoning, "using existing category"))
    ELSE IF ~client
    THEN Put(Put(state, "category", fallback_category(lower(state.cleaned_name))),
             "reasoning", Append(state.reasoning, "fallback categorization"))
    ELSE IF reply.kind = "raise"
    THEN Put(Put(state, "category", general),
             "reasoning", Append(state.reasoning, "categorization failed"))
    ELSE Put(Put(state, "category",
                 IF \E k \in 1..Len(valid_categories) :
                        valid_categories[k] = lower(strip(reply.content))
                 THEN lower(strip(reply.content))
                 ELSE general),
             "reasoning", Append(state.reasoning, "LLM categorized"))


weight_units == << <<"k", "g">>, <<"g">>, <<"l", "b">>, <<"o", "z">> >>

size_units == << <<"m", "l">>, <<"l">>, <<"o", "z">> >>

\* the end of the match of (\d+(?:\.\d+)?) at the start of s, 0 for no match
number_end(s) ==
    IF leading_digits(s) = 0 THEN 0
    ELSE IF /\ Len(s) > leading_digits(s) + 1
            /\ s[leading_digits(s) + 1] = "."
            /\ IsDigit(s[leading_digits(s) + 2])
    THEN leading_digits(s) + 1 + leading_digits(from(s, leading_digits(s) + 1))
    ELSE leading_digits(s)

\* the units of the alternation that s starts with, letter case ignored
units_at(s, units) == {k \in 1..Len(units) : startswith(lower(s), units[k])}

\* the length of the match of (\d+(?:\.\d+)?)\s*(unit|...) at the start of s,
\* 0 for no match; the alternation takes its first unit that matches
match_length(s, units) ==
    IF number_end(s) = 0 THEN 0
    ELSE IF units_at(from(s, number_end(s) + leading_spaces(from(s, number_end(s)))),
                     units) = {}
    THEN 0
    ELSE number_end(s) + leading_spaces(from(s, number_end(s)))
         + Len(units[CHOOSE k \in units_at(from(s, number_end(s)
                                                + leading_spaces(from(s, number_end(s)))),
                                           units) :
                         \A h \in units_at(from(s, number_end(s)
                                                + leading_spaces(from(s, number_end(s)))),
                                           units) : k <= h])

\* re.search(...).group(0): the leftmost match in name, None when there is none
RECURSIVE search_quantity(_, _)
search_quantity(name, units) ==
    IF name = <<>> THEN None
    ELSE IF match_length(name, units) > 0
    THEN Some(SubSeq(name, 1, match_length(name, units)))
    ELSE search_quantity(Tail(name), units)

\* the brand: the one supplied, or the first word of the name in title case
brand_of(name, existing_data) ==
    IF "brand" \in DOMAIN existing_data /\ Truthy(existing_data.brand)
    THEN existing_data.brand
    ELSE IF split(name) # <<>> THEN title(split(name)[1])
    ELSE Unknown

\* the description: the one supplied, the one the language model writes, or
\* "Product: <name>"
description_of(name, existing_data, client, reply) ==
    IF "description" \in DOMAIN existing_data /\ Truthy(existing_data.description)
    THEN existing_data.description
    ELSE IF client /\ reply.kind = "text" THEN strip(reply.content)
    ELSE ProductColon \o name

\* attributes[key] = the match, when there is one and the key is not yet there
with_quantity(attributes, key, match) ==
    IF match # None /\ key \notin DOMAIN attributes
    THEN Put(attributes, key, Val(match))
    ELSE attributes

extract_attributes_node(state, client, reply) ==
    Put(Put(Put(Put(state, "brand", brand_of(state.cleaned_name, state.product_data)),
                "description",
                description_of(state.cleaned_name, state.product_data, client, reply)),
            "attributes",
            with_quantity(with_quantity(Get(state.product_data, "attributes", EmptyDict),
                                        "weight",
                                        search_quantity(state.cleaned_name, weight_units)),
                          "size", search_quantity(state.cleaned_name, size_units))),
        "reasoning", Append(state.reasoning, "extracted brand and attributes"))

\* the required fields the state has no value for
find_missing_fields_node(state) ==
    Put(Put(state, "missing_fields",
            SelectSeq(<<"category", "brand", "description">>,
                      LAMBDA field : ~Truthy(Get(state, field, <<>>)))),
        "reasoning",
        Append(state.reasoning,
               IF \E field \in {"category", "brand", "description"} :
                      ~Truthy(Get(state, field, <<>>))
               THEN "missing fields"
               ELSE "all required fields present"))

\* every branch of the loop is a continue
enrich_fields_node(state) == Put(state, "enriched_fields", EmptyDict)

\* the entry of the alternatives list for a product of the catalog
alternative_of(product) ==
    [ name     |-> Get(product, "name", <<>>),
      brand    |-> Get(product, "brand", <<>>),
      category |-> Get(product, "category", <<>>),
      price    |-> Get(product, "price", 0),
      margin   |-> Get(product, "margin_pct", 0) ]

\* alternatives[:3]
first_three(alternatives) ==
    SubSeq(alternatives, 1, IF Len(alternatives) < 3 THEN Len(alternatives) ELSE 3)

\* the products of the catalog, in its order, of the same category, with
\* another name (letter case ignored) and another brand
matching_products(product_catalog, category, brand, name) ==
    SelectSeq(product_catalog,
              LAMBDA product :
                  /\ "category" \in DOMAIN product
                  /\ product.category = category
                  /\ lower(Get(product, "name", <<>>)) # lower(name)
                  /\ Get(product, "brand", <<>>) # brand)

\* variant: products of the same brand are alternatives too
search_in_catalog_any_brand(product_catalog, category, brand, name) ==
    [ k \in DOMAIN first_three(SelectSeq(product_catalog,
                                         LAMBDA product :
                                             /\ "category" \in DOMAIN product
                                             /\ product.category = category
                                             /\ lower(Get(product, "name", <<>>))
                                                    # lower(name))) |->
        alternative_of(first_three(SelectSeq(product_catalog,
                                             LAMBDA product :
                                                 /\ "category" \in DOMAIN product
                                                 /\ product.category = category
                                                 /\ lower(Get(product, "name", <<>>))
                                                        # lower(name)))[k]) ]

\* Search in catalog for similar products: the loop ends at the third match
search_in_catalog(product_catalog, category, brand, name) ==
    [ k \in DOMAIN first_three(matching_products(product_catalog, category, brand,
                                                 name)) |->
        alternative_of(matching_products(product_catalog, category, brand, name)[k]) ]

\* the suggestion of the language model is asked for and parsed; reply is
\* [kind |-> "raise"] (the call or json.loads fails) or [kind |-> "json",
\* value |-> what json.loads returns]
suggested(found, client, reply) == found = <<>> /\ client /\ reply.kind = "json"

\* what the node slices and stores, given the alternatives found in the catalog
store_alternatives(state, found, client, reply) ==
    IF suggested(found, client, reply) /\ reply.value.type \in {"object", "number"}
    THEN Raise(state, "TypeError")
    ELSE Put(Put(state, "alternatives",
                 first_three(IF suggested(found, client, reply)
                             THEN reply.value.items
                             ELSE found)),
             "reasoning",
             Append(state.reasoning,
                    IF Truthy(IF suggested(found, client, reply)
                              THEN reply.value.items
                              ELSE found)
                    THEN "found alternative products"
                    ELSE "no alternatives found"))

find_alternatives_node(state, product_catalog, client, reply) ==
    store_alternatives(state,
                       search_in_catalog(product_catalog, state.category, state.brand,
                                         state.cleaned_name),
                       client, reply)

enrichment_narrative_node(state, client, reply) ==
    Put(state, "narrative",
        IF ~client THEN "Enriched product, with the number of alternatives"
        ELSE IF reply.kind = "text" THEN "llm_text"
        ELSE "Enriched product")

\* enrichment_graph: entry point, edges and nodes
enrichment_entry_point == "load_input"

enrichment_edge ==
    [ load_input |-> "clean_name", clean_name |-> "categorize",
      categorize |-> "extract_attributes", extract_attributes |-> "find_missing",
      find_missing |-> "enrich", enrich |-> "find_alternatives",
      find_alternatives |-> "narrative", narrative |-> "return" ]

enrichment_run_node(n, state, product_catalog, client, reply) ==
    IF n = "load_input" THEN load_input_node(state)
    ELSE IF n = "clean_name" THEN clean_name_node(state)
    ELSE IF n = "categorize" THEN categorize_node(state, client, reply)
    ELSE IF n = "extract_attributes" THEN extract_attributes_node(state, client, reply)
    ELSE IF n = "find_missing" THEN find_missing_fields_node(state)
    ELSE IF n = "enrich" THEN enrich_fields_node(state)
    ELSE IF n = "find_alternatives"
    THEN find_alternatives_node(state, product_catalog, client, reply)
    ELSE enrichment_narrative_node(state, client, reply)

\* the tool's answer, given the final state of the graph
enrichment_answer(result) ==
    IF Raised(result) THEN [exception |-> result.exception]
    ELSE [ product_name   |-> result.cleaned_name,
           category       |-> Get(result, "category", <<>>),
           brand          |-> Get(result, "brand", <<>>),
           description    |-> Get(result, "description", <<>>),
           attributes     |-> Get(result, "attributes", EmptyDict),
           missing_fields |-> Get(result, "missing_fields", <<>>),
           alternatives   |-> Get(result, "alternatives", <<>>),
           narrative      |-> Get(result, "narrative", ""),
           reasoning      |-> Get(result, "reasoning", <<>>) ]

----------------------------------------------------------------------------
\* Orchestrator client (client/orchestrator.py).
\*
\* env is the environment's answer to one agent call: env.transport is "ok"
\* (the server's JSON answer arrives), "unavailable" (the call fails inside the
\* try block of call_*, which returns {"error": ...}) or "raise" (an exception
\* escapes the node); env.llm tells whether the server's narrative call answers;
\* env.today is <<the server's clock at the call>>, None for a server that reads
\* no clock.

\* json.loads of the tool's answer; a tool that raised answers with text that is
\* no JSON, so the except branch returns {"error": str(e)}
parse_tool_response(server_result) ==
    IF "exception" \in DOMAIN server_result
    THEN [error |-> server_result.exception]
    ELSE server_result

call_forecasting(category, days_ahead, tables, env) ==
    IF env.transport # "ok" THEN [error |-> "capability unavailable"]
    ELSE parse_tool_response(
             getForecast(category, days_ahead, tables.events, tables.surge_profiles,
                         Val(env.today), env.llm))

replenishment_inventory_levels ==
    [ tv                 |-> [current |-> 45,  in_transit |-> 10],
      laptop             |-> [current |-> 25,  in_transit |-> 5],
      phone              |-> [current |-> 80,  in_transit |-> 20],
      kitchen_appliances |-> [current |-> 120, in_transit |-> 30],
      fashion            |-> [current |-> 350, in_transit |-> 50],
      groceries          |-> [current |-> 800, in_transit |-> 200],
      electronics        |-> [current |-> 450, in_transit |-> 100] ]

\* current_stock and in_transit are None or <<n>>
call_replenishment(forecast_data, current_stock, in_transit, env) ==
    LET category == forecast_data.category  \* getForecast's answer always carries it
        inv == Get(replenishment_inventory_levels, category,
                   [current |-> 200, in_transit |-> 50])
        event == Get(forecast_data, "event", None)
        final_forecast == Get(forecast_data, "final_forecast", RInt(0))
        replenish_input ==
            [ category |-> category,
              forecast |->
                  [ forecasted_demand |-> final_forecast,
                    avg_daily_demand  |-> RDiv(final_forecast, RInt(30)),
                    demand_volatility |-> "medium",
                    event |-> [ name |-> event,
                                days_to_event |->
                                    IF event # None THEN Some(10) ELSE None ] ],
              inventory |->
                  [ current_stock |->
                        IF current_stock = None THEN inv.current ELSE Val(current_stock),
                    in_transit_stock |->
                        IF in_transit = None THEN inv.in_transit ELSE Val(in_transit) ],
              supplier |-> [lead_time_days |-> 10, minimum_order_quantity |-> 50] ]
    IN  IF env.transport # "ok" THEN [error |-> "capability unavailable"]
        ELSE parse_tool_response(getReplenishmentDecision(replenish_input, env.llm))

pricing_inventory_levels ==
    [ tv |-> 45, laptop |-> 25, phone |-> 80, kitchen_appliances |-> 120,
      fashion |-> 350, groceries |-> 800, electronics |-> 450 ]

default_prices ==
    [ electronics |-> 9000, tv |-> 28000, laptop |-> 48000, phone |-> 16000,
      kitchen_appliances |-> 5500, fashion |-> 1500, groceries |-> 220,
      smartphones |-> 16000 ]

\* inventory_level and current_price are None or <<n>>
call_pricing(category, forecasted_demand, inventory_level, current_price, tables, env) ==
    LET pricing_input ==
            [ category          |-> category,
              current_price     |->
                  IF current_price = None
                  THEN RInt(Get(default_prices, category, 5000))
                  ELSE Val(current_price),
              forecasted_demand |-> forecasted_demand,
              inventory_level   |->
                  IF inventory_level = None
                  THEN RInt(Get(pricing_inventory_levels, category, 200))
                  ELSE Val(inventory_level),
              target_profit_pct |-> RInt(0) ]
    IN  IF env.transport # "ok" THEN [error |-> "capability unavailable"]
        ELSE parse_tool_response(
                 getPricingStrategy(pricing_input, tables.elasticity_data,
                                    tables.competitor_data, env.llm))

\* LangGraph nodes: the state after the node, given the answer of its agent call

\* variant: a forecast failure that sets the status and records no message
forecasting_node_without_message(state, forecast_data) ==
    IF "error" \in DOMAIN forecast_data
    THEN [ workflow_status |-> "failed_forecast" ] @@ state
    ELSE [ forecast_data       |-> forecast_data,
           base_forecast       |-> Get(forecast_data, "base_forecast", RInt(0)),
           final_forecast      |-> Get(forecast_data, "final_forecast", RInt(0)),
           seasonal_multiplier |-> Get(forecast_data, "seasonal_multiplier", RInt(1)),
           event               |-> Get(forecast_data, "event", Some("None")),
           forecast_narrative  |-> Get(forecast_data, "narrative", "") ] @@ state

forecasting_node(state, forecast_data) ==
    IF "error" \in DOMAIN forecast_data
    THEN [ errors          |-> Append(state.errors, <<"Forecasting", forecast_data.error>>),
           workflow_status |-> "failed_forecast" ] @@ state
    ELSE [ forecast_data       |-> forecast_data,
           base_forecast       |-> Get(forecast_data, "base_forecast", RInt(0)),
           final_forecast      |-> Get(forecast_data, "final_forecast", RInt(0)),
           seasonal_multiplier |-> Get(forecast_data, "seasonal_multiplier", RInt(1)),
           event               |-> Get(forecast_data, "event", Some("None")),
           forecast_narrative  |-> Get(forecast_data, "narrative", "") ] @@ state

\* Skip if forecast failed
replenishment_skips(state) == Get(state, "workflow_status", "") = "failed_forecast"

\* variant: a replenishment failure wiping the forecast the state carries
replenishment_node_resets_forecast(state, replenish_data) ==
    IF replenishment_skips(state) THEN state
    ELSE IF "error" \in DOMAIN replenish_data
    THEN [ errors          |-> Append(state.errors, <<"Replenishment", replenish_data.error>>),
           workflow_status |-> "failed_replenishment",
           base_forecast   |-> RInt(0),
           final_forecast  |-> RInt(0) ] @@ state
    ELSE [ replenishment_data      |-> replenish_data,
           reorder_qty             |-> Get(replenish_data, "reorder_qty", 0),
           reorder_timing          |-> Get(replenish_data, "reorder_timing", "unknown"),
           stockout_risk           |-> Get(replenish_data, "stockout_risk", "unknown"),
           replenishment_narrative |-> Get(replenish_data, "narrative", "") ] @@ state

replenishment_node(state, replenish_data) ==
    IF replenishment_skips(state) THEN state
    ELSE IF "error" \in DOMAIN replenish_data
    THEN [ errors          |-> Append(state.errors, <<"Replenishment", replenish_data.error>>),
           workflow_status |-> "failed_replenishment" ] @@ state
    ELSE [ replenishment_data      |-> replenish_data,
           reorder_qty             |-> Get(replenish_data, "reorder_qty", 0),
           reorder_timing          |-> Get(replenish_data, "reorder_timing", "unknown"),
           stockout_risk           |-> Get(replenish_data, "stockout_risk", "unknown"),
           replenishment_narrative |-> Get(replenish_data, "narrative", "") ] @@ state

\* "failed" in status
has_failed(status) ==
    status \in {"failed_forecast", "failed_replenishment", "failed_pricing"}

\* variant: the pricing node skipping after a forecast failure only
pricing_skips_forecast_only(state) ==
    Get(state, "workflow_status", "") = "failed_forecast"

\* Skip if previous nodes failed
pricing_skips(state) == has_failed(Get(state, "workflow_status", ""))

\* variant: the pricing node writing its fields and leaving the status alone
pricing_update_leaves_status(state, pricing_data) ==
    IF "error" \in DOMAIN pricing_data
    THEN [ errors          |-> Append(state.errors, <<"Pricing", pricing_data.error>>),
           workflow_status |-> "failed_pricing" ] @@ state
    ELSE [ pricing_data        |-> pricing_data,
           current_price       |-> Get(pricing_data, "current_price", RInt(0)),
           recommended_price   |-> Get(pricing_data, "recommended_price", RInt(0)),
           price_change_pct    |-> Get(pricing_data, "price_change_pct", RInt(0)),
           recommendation_type |-> Get(pricing_data, "recommendation_type", "maintain"),
           pricing_narrative   |-> Get(pricing_data, "narrative", "") ] @@ state

\* the pricing node once it has called its agent
pricing_update(state, pricing_data) ==
    IF "error" \in DOMAIN pricing_data
    THEN [ errors          |-> Append(state.errors, <<"Pricing", pricing_data.error>>),
           workflow_status |-> "failed_pricing" ] @@ state
    ELSE [ pricing_data        |-> pricing_data,
           current_price       |-> Get(pricing_data, "current_price", RInt(0)),
           recommended_price   |-> Get(pricing_data, "recommended_price", RInt(0)),
           price_change_pct    |-> Get(pricing_data, "price_change_pct", RInt(0)),
           recommendation_type |-> Get(pricing_data, "recommendation_type", "maintain"),
           pricing_narrative   |-> Get(pricing_data, "narrative", ""),
           workflow_status     |-> "completed" ] @@ state

\* variant: the last node marking the workflow completed even when it skips
pricing_node_completes_when_skipped(state, pricing_data) ==
    IF pricing_skips(state) THEN Put(state, "workflow_status", "completed")
    ELSE pricing_update(state, pricing_data)

pricing_node(state, pricing_data) ==
    IF pricing_skips(state) THEN state
    ELSE pricing_update(state, pricing_data)

\* build_retail_ops_graph: entry point and edges
entry_point == "forecast"

\* variant: a conditional edge sending the pricing node back to itself
edge_retrying_price == [forecast |-> "replenish", replenish |-> "price", price |-> "price"]

edge == [forecast |-> "replenish", replenish |-> "price", price |-> "END"]

\* dict.get(k): None when the key is missing
OptGet(d, k) == IF k \in DOMAIN d THEN Some(d[k]) ELSE None

initial_state(category, days_ahead, timestamp) ==
    [ category        |-> category,
      days_ahead      |-> days_ahead,
      errors          |-> <<>>,
      workflow_status |-> "running",
      timestamp       |-> timestamp ]

\* Format results
format_result(category, final_state) ==
    [ category  |-> category,
      timestamp |-> OptGet(final_state, "timestamp"),
      status    |-> OptGet(final_state, "workflow_status"),
      forecast  |->
          [ base                |-> OptGet(final_state, "base_forecast"),
            final               |-> OptGet(final_state, "final_forecast"),
            seasonal_multiplier |-> OptGet(final_state, "seasonal_multiplier"),
            \* the event is already None or <<name>>
            event               |-> Get(final_state, "event", None),
            narrative           |-> OptGet(final_state, "forecast_narrative") ],
      replenishment |->
          [ reorder_qty   |-> OptGet(final_state, "reorder_qty"),
            timing        |-> OptGet(final_state, "reorder_timing"),
            stockout_risk |-> OptGet(final_state, "stockout_risk"),
            narrative     |-> OptGet(final_state, "replenishment_narrative") ],
      pricing |->
          [ current_price     |-> OptGet(final_state, "current_price"),
            recommended_price |-> OptGet(final_state, "recommended_price"),
            change_pct        |-> OptGet(final_state, "price_change_pct"),
            type              |-> OptGet(final_state, "recommendation_type"),
            narrative         |-> OptGet(final_state, "pricing_narrative") ],
      errors |-> Get(final_state, "errors", <<>>) ]

\* variant: the except branch returning the error without a status
error_result_without_status(category) ==
    [category |-> category, error |-> "unexpected exception"]

\* except Exception as e
error_result(category) ==
    [category |-> category, status |-> Some("error"), error |-> "unexpected exception"]

\* variant: the results in the order in which the workflows completed
gather_as_completed(results, completion_order) ==
    [k \in 1..Len(results) |-> results[completion_order[k]]]

\* asyncio.gather(*tasks): the results in the order of the awaitables passed in,
\* whatever the order in which they completed
gather(results, completion_order) == [k \in 1..Len(results) |-> results[k]]

\* variant: one state dict shared by every workflow of the batch
write_state_shared(states, i, state) == [j \in DOMAIN states |-> state]

\* each workflow's state dict is its own: a node of workflow i writes states[i] only
write_state(states, i, state) == [states EXCEPT ![i] = state]

----------------------------------------------------------------------------
\* Static reference data.  The data files (events.json, surge_profile.json,
\* price_elasticity.json, competitor_prices.json) are inputs of the servers:
\* the tables below are the ones the model is run with.  An event's date is a
\* day number on the model's clock.

Dussehra == [name |-> "Dussehra", date |-> 0, multiplier |-> Rat(13, 10)]
Diwali == [name |-> "Diwali", date |-> 1, multiplier |-> Rat(145, 100)]
NewYear == [name |-> "NewYear", date |-> 2, multiplier |-> Rat(12, 10)]
FarEvent == [name |-> "Holi", date |-> 400, multiplier |-> Rat(13, 10)]

Calendars == { <<Dussehra, Diwali, NewYear>>, <<FarEvent>> }

SurgeProfiles == [Diwali |-> [tv |-> Rat(13, 10), laptop |-> Rat(11, 10)]]

ElasticityData ==
    [ tv |-> [ elasticity |-> Rat(-18, 10), base_margin |-> Rat(18, 100),
               min_margin |-> Rat(12, 100), max_discount |-> Rat(15, 100) ] ]

CompetitorData ==
    [ tv |-> [competitor_avg_price |-> RInt(23700), price_difference_pct |-> RInt(18)] ]

\* the batches run_batch_workflow is called with
BatchInputs ==
    { <<"tv", "laptop">>, <<"invalid_category_xyz", "tv">>, <<"tv", "tv">> }

DaysAheadInputs == {30}

\* last tick of the clock
MaxNow == 2

----------------------------------------------------------------------------
\* The state machine.

VARIABLES
    now,         \* the wall clock, in ticks
    tables,      \* the static reference data loaded at startup
    llm_up,      \* llm_up[i]: whether the language model answers workflow i's servers
                 \* (the endpoint is up, or down, for the whole batch)
    categories,  \* run_batch_workflow's argument
    days_ahead,  \* run_batch_workflow's argument
    pc,          \* pc[i]: where workflow i is: "start", a node, "END", "done"
    st,          \* st[i]: the RetailOpsState dict of workflow i
    started,     \* started[i]: None, or <<the clock when workflow i started>>
    calls,       \* calls[i]: the agent calls of workflow i, in order, each with the
                 \* environment's answer and how it ended: "ok", "error", "raise"
    result,      \* result[i]: None, or <<the value run_full_workflow returned>>
    order,       \* the workflows in the order in which they completed
    batch,       \* None, or <<the list run_batch_workflow returned>>
    stage,       \* stage specifications: the position in the tool's graph
    stage_in,    \* stage specifications: the tool's input
    stage_out    \* stage specifications: the tool's state, then its answer

vars == << now, tables, llm_up, categories, days_ahead, pc, st, started, calls,
           result, order, batch, stage, stage_in, stage_out >>

\* what the program is started with and never writes
inputs == << tables, llm_up, categories, days_ahead >>

stage_vars == << stage, stage_in, stage_out >>

Workflows == 1..Len(categories)

\* the clock an agent call of node n reads: only the forecasting server reads
\* datetime.now()
today_read(n) == IF n = "forecast" THEN Some(now) ELSE None

\* the answers the environment can give to an agent call of node n of workflow
\* i that returns
Answers(i, n) ==
    { [transport |-> "ok", llm |-> llm_up[i], today |-> today_read(n)],
      [transport |-> "unavailable", llm |-> llm_up[i], today |-> today_read(n)] }

Raising(i, n) == [transport |-> "raise", llm |-> llm_up[i], today |-> today_read(n)]

tool_of == [ forecast  |-> "getForecast",
             replenish |-> "getReplenishmentDecision",
             price     |-> "getPricingStrategy" ]

TheTables(events) ==
    [ events |-> events, surge_profiles |-> SurgeProfiles,
      elasticity_data |-> ElasticityData, competitor_data |-> CompetitorData ]

Init ==
    /\ now = 0
    /\ \E events \in Calendars : tables = TheTables(events)
    /\ categories \in BatchInputs
    /\ days_ahead \in DaysAheadInputs
    /\ \E up \in BOOLEAN : llm_up = [i \in Workflows |-> up]
    /\ pc = [i \in Workflows |-> "start"]
    /\ st = [i \in Workflows |-> EmptyDict]
    /\ started = [i \in Workflows |-> None]
    /\ calls = [i \in Workflows |-> <<>>]
    /\ result = [i \in Workflows |-> None]
    /\ order = <<>>
    /\ batch = None
    /\ stage = None /\ stage_in = None /\ stage_out = None

\* datetime.now() moves on.  The clock is read when a workflow starts (the
\* timestamp) and by the forecasting server; once every workflow is past both,
\* nothing reads it any more and its ticks are left out.
Tick ==
    /\ now < MaxNow
    /\ \E i \in Workflows : pc[i] \in {"start", "forecast"}
    /\ now' = now + 1
    /\ UNCHANGED << inputs, pc, st, started, calls, result, order, batch, stage_vars >>

\* run_full_workflow(category, days_ahead): Initialize state, enter the graph.
\* gather schedules the tasks in the order of the categories, and a task runs to
\* its first suspension (the agent call) before the next one starts.
StartWorkflow(i) ==
    /\ pc[i] = "start"
    /\ \A j \in Workflows : j < i => pc[j] # "start"
    /\ st' = write_state(st, i, initial_state(categories[i], days_ahead, now))
    /\ started' = [started EXCEPT ![i] = Some(now)]
    /\ pc' = [pc EXCEPT ![i] = entry_point]
    /\ UNCHANGED << now, inputs, calls, result, order, batch, stage_vars >>

\* the value the agent call of node n returns to the node
call_agent(n, state, tbl, env) ==
    IF n = "forecast"
    THEN call_forecasting(state.category, Get(state, "days_ahead", 30), tbl, env)
    ELSE IF n = "replenish"
    THEN call_replenishment(state.forecast_data, None, None, env)
    ELSE call_pricing(state.category, state.final_forecast, None, None, tbl, env)

\* the state node n returns, given the value its agent call returned
node_returns(n, state, data) ==
    IF n = "forecast" THEN forecasting_node(state, data)
    ELSE IF n = "replenish" THEN replenishment_node(state, data)
    ELSE pricing_node(state, data)

\* whether node n returns the state untouched without calling its agent
node_skips(n, state) ==
    IF n = "replenish" THEN replenishment_skips(state)
    ELSE IF n = "price" THEN pricing_skips(state)
    ELSE FALSE

Outcome(data) == IF "error" \in DOMAIN data THEN "error" ELSE "ok"

\* Node n of workflow i runs: its agent call returns and the node handles it
Node(i, n) ==
    /\ pc[i] = n
    /\ ~node_skips(n, st[i])
    \* the answer of an agent arrives once every task has run to its first await
    /\ \A j \in Workflows : pc[j] # "start"
    /\ \E env \in Answers(i, n) :
          LET data == call_agent(n, st[i], tables, env)
          IN  /\ st' = write_state(st, i, node_returns(n, st[i], data))
              /\ calls' = [calls EXCEPT ![i] =
                     Append(@, [tool |-> tool_of[n], env |-> env,
                                outcome |-> Outcome(data)])]
    /\ pc' = [pc EXCEPT ![i] = edge[n]]
    /\ UNCHANGED << now, inputs, started, result, order, batch, stage_vars >>

\* Node n of workflow i returns before its agent call (a stage before it failed):
\* no answer is read
SkipNode(i, n) ==
    /\ pc[i] = n
    /\ node_skips(n, st[i])
    /\ st' = write_state(st, i, node_returns(n, st[i], EmptyDict))
    /\ pc' = [pc EXCEPT ![i] = edge[n]]
    /\ UNCHANGED << now, inputs, started, calls, result, order, batch, stage_vars >>

\* An unexpected exception escapes node n and the graph: the except branch of
\* run_full_workflow returns the error record
NodeRaises(i, n) ==
    /\ pc[i] = n
    /\ ~node_skips(n, st[i])
    /\ calls' = [calls EXCEPT ![i] =
           Append(@, [tool |-> tool_of[n], env |-> Raising(i, n), outcome |-> "raise"])]
    /\ result' = [result EXCEPT ![i] = Some(error_result(categories[i]))]
    /\ order' = Append(order, i)
    /\ pc' = [pc EXCEPT ![i] = "done"]
    /\ UNCHANGED << now, inputs, st, started, batch, stage_vars >>

\* graph.ainvoke returned: run_full_workflow formats and returns the result
ReturnResult(i) ==
    /\ pc[i] = "END"
    /\ result' = [result EXCEPT ![i] = Some(format_result(categories[i], st[i]))]
    /\ order' = Append(order, i)
    /\ pc' = [pc EXCEPT ![i] = "done"]
    /\ UNCHANGED << now, inputs, st, started, calls, batch, stage_vars >>

\* run_batch_workflow: every task is done, gather returns the list
Gather ==
    /\ batch = None
    /\ \A i \in Workflows : pc[i] = "done"
    /\ batch' = Some(gather([i \in Workflows |-> Val(result[i])], order))
    /\ UNCHANGED << now, inputs, pc, st, started, calls, result, order, stage_vars >>

Nodes == {"forecast", "replenish", "price"}

Next ==
    \/ Tick
    \/ \E i \in Workflows : StartWorkflow(i)
    \/ \E i \in Workflows, n \in Nodes : Node(i, n)
    \/ \E i \in Workflows, n \in Nodes : SkipNode(i, n)
    \/ \E i \in Workflows, n \in Nodes : NodeRaises(i, n)
    \/ \E i \in Workflows : ReturnResult(i)
    \/ Gather

Spec == Init /\ [][Next]_vars

\* the largest batch of BatchInputs
MaxBatch == 2

\* A step of workflow i as its position in run_full_workflow shows it: the task
\* starts (in the order gather created the tasks), a node of the graph returns,
\* skips or raises, or the result is returned.  It is stated on pc alone, so
\* that whether it is possible does not depend on what the agents answer.
WorkflowStep(i) ==
    /\ i \in Workflows
    /\ pc[i] # "done"
    /\ pc[i] = "start" => \A j \in Workflows : j < i => pc[j] # "start"
    /\ \E p \in {"forecast", "replenish", "price", "END", "done"} \ {pc[i]} :
           pc' = [pc EXCEPT ![i] = p]

\* The event loop runs every task that is ready, and every agent call comes
\* back (with an answer, an error or an exception): a workflow that can take a
\* step takes one, and gather returns once every task is done.
SpecFair ==
    /\ Spec
    /\ \A i \in 1..MaxBatch : WF_pc(WorkflowStep(i))
    /\ WF_vars(Gather)

----------------------------------------------------------------------------
\* The replenishment tool alone: getReplenishmentDecision run node by node on
\* every input of ReplenishInputs.

orch_vars == << now, inputs, pc, st, started, calls, result, order, batch >>

\* no batch is running
OrchIdle ==
    /\ now = 0
    /\ categories = <<>>
    /\ days_ahead = 30
    /\ llm_up = <<>>
    /\ pc = <<>> /\ st = <<>> /\ started = <<>> /\ calls = <<>> /\ result = <<>>
    /\ order = <<>>
    /\ batch = None

ReplenishInputs ==
    { [ category |-> "tv",
        forecast |-> [ forecasted_demand |-> fd,
                       avg_daily_demand  |-> ad,
                       demand_volatility |-> vol,
                       event |-> [name |-> IF dte = None THEN None ELSE Some("Diwali"),
                                  days_to_event |-> dte] ],
        inventory |-> [current_stock |-> cs, in_transit_stock |-> it],
        supplier  |-> [lead_time_days |-> lt, minimum_order_quantity |-> moq] ] :
      fd \in {RInt(0), Rat(1885, 100), Rat(73, 2), RInt(100), Rat(2405, 10)},
      ad \in {RInt(0), Rat(3, 8), RInt(5), RInt(10), Rat(321, 16)},
      vol \in {"low", "medium", "high", "extreme"},
      dte \in {None, Some(5), Some(10), Some(11)},
      cs \in {0, 40, 200},
      it \in {0, 20},
      lt \in {7, 10},
      moq \in {0, 50, 300} }

InitReplenish ==
    /\ OrchIdle
    /\ tables = TheTables(<<>>)
    /\ stage_in \in ReplenishInputs
    /\ stage = replenishment_entry_point
    /\ stage_out = [input |-> stage_in]

\* one node of replenishment_graph runs; a node that raises ends the tool call
ReplenishNode ==
    /\ stage \in DOMAIN replenishment_edge
    /\ \E llm \in BOOLEAN :
           stage_out' = replenishment_run_node(stage, stage_out, llm)
    /\ stage' = IF Raised(stage_out') THEN "raised" ELSE replenishment_edge[stage]
    /\ UNCHANGED << orch_vars, stage_in >>

\* getReplenishmentDecision returns the four fields of the final state
ReplenishReturn ==
    /\ stage = "return"
    /\ stage_out' = replenishment_answer(stage_out)
    /\ stage' = "done"
    /\ UNCHANGED << orch_vars, stage_in >>

NextReplenish == ReplenishNode \/ ReplenishReturn

SpecReplenish == InitReplenish /\ [][NextReplenish]_vars

----------------------------------------------------------------------------
\* The pricing tool alone: getPricingStrategy run node by node on every input
\* of PricingInputs, with every category profile of PricingProfiles loaded.

PricingInputs ==
    { [ category          |-> c,
        current_price     |-> cp,
        forecasted_demand |-> fd,
        inventory_level   |-> inv,
        target_profit_pct |-> tp ] :
      c \in {"tv", "unlisted"},
      cp \in {RInt(10), Rat(1999, 100), RInt(28000)},
      fd \in {RInt(0), RInt(50), RInt(100)},
      inv \in {RInt(20), RInt(60), RInt(300)},
      tp \in {RInt(0), RInt(5), RInt(10), RInt(85), RInt(90)} }

\* the entries of price_elasticity.json and competitor_prices.json for "tv"
PricingProfiles ==
    { [ elasticity_data |->
            [tv |-> [ elasticity |-> el, base_margin |-> bm, min_margin |-> mm,
                      max_discount |-> md ]],
        competitor_data |->
            [tv |-> [competitor_avg_price |-> RInt(25000), price_difference_pct |-> pd]] ] :
      el \in {Rat(-3, 2), Rat(-1, 2)},
      bm \in {Rat(1, 5), Rat(1, 10)},
      mm \in {Rat(15, 100), Rat(5, 100), RInt(1)},
      md \in {Rat(1, 5), Rat(1, 20)},
      pd \in {RInt(20), RInt(10), RInt(0), RInt(-10)} }

InitPricing ==
    /\ OrchIdle
    /\ \E p \in PricingProfiles :
           tables = [ events |-> <<>>, surge_profiles |-> SurgeProfiles,
                      elasticity_data |-> p.elasticity_data,
                      competitor_data |-> p.competitor_data ]
    /\ stage_in \in PricingInputs
    /\ stage = pricing_entry_point
    /\ stage_out = [input |-> stage_in]

\* one node of pricing_graph runs; a node that raises ends the tool call
PricingNode ==
    /\ stage \in DOMAIN pricing_edge
    /\ \E llm \in BOOLEAN :
           stage_out' = pricing_run_node(stage, stage_out, tables.elasticity_data,
                                         tables.competitor_data, llm)
    /\ stage' = IF Raised(stage_out') THEN "raised" ELSE pricing_edge[stage]
    /\ UNCHANGED << orch_vars, stage_in >>

\* getPricingStrategy returns the fields of the final state
PricingReturn ==
    /\ stage = "return"
    /\ stage_out' = pricing_answer(stage_out)
    /\ stage' = "done"
    /\ UNCHANGED << orch_vars, stage_in >>

NextPricing == PricingNode \/ PricingReturn

SpecPricing == InitPricing /\ [][NextPricing]_vars

----------------------------------------------------------------------------
\* The forecasting tool alone: getForecast called MaxForecastCalls times for one
\* category by one running server, with the clock moving between the calls.

Pongal == [name |-> "Pongal", date |-> 182, multiplier |-> Rat(11, 10)]

\* events.json: the calendars the server is run with, in file order
ForecastCalendars ==
    { <<Dussehra, Diwali, NewYear>>, <<NewYear, Diwali>>, <<FarEvent, NewYear>>,
      <<FarEvent>>, <<Pongal>>, <<>> }

SurgeProfilesWide ==
    [ Diwali  |-> [phone |-> Rat(3, 2), tv |-> Rat(13, 10)],
      NewYear |-> [laptop |-> Rat(5, 4)] ]

\* surge_profile.json
ForecastSurgeProfiles == {SurgeProfiles, SurgeProfilesWide}

ForecastCategories == DOMAIN categories_spec \cup {"invalid_category_xyz"}

ForecastHorizons == {30, 60}

MaxForecastCalls == 2

InitForecast ==
    /\ OrchIdle
    /\ \E events \in ForecastCalendars, surge \in ForecastSurgeProfiles :
           tables = [ events |-> events, surge_profiles |-> surge,
                      elasticity_data |-> ElasticityData,
                      competitor_data |-> CompetitorData ]
    /\ \E c \in ForecastCategories : stage_in = [category |-> c]
    /\ stage = "call"
    /\ stage_out = <<>>

\* datetime.now() moves on between two calls
ForecastTick ==
    /\ stage = "call"
    /\ now < MaxNow
    /\ now' = now + 1
    /\ UNCHANGED << inputs, pc, st, started, calls, result, order, batch, stage_vars >>

\* one call of the tool: the horizon asked for, the clock the server read, and
\* its answer
ForecastCall ==
    /\ stage = "call"
    /\ \E d \in ForecastHorizons, llm \in BOOLEAN :
           stage_out' = Append(stage_out,
               [ days_ahead |-> d, today |-> now,
                 answer |-> getForecast(stage_in.category, d, tables.events,
                                        tables.surge_profiles, now, llm) ])
    /\ stage' = IF Len(stage_out') = MaxForecastCalls THEN "done" ELSE "call"
    /\ UNCHANGED << orch_vars, stage_in >>

NextForecast == ForecastTick \/ ForecastCall

SpecForecast == InitForecast /\ [][NextForecast]_vars

----------------------------------------------------------------------------
\* The catalog enricher tool alone: enrichProduct run node by node on every
\* input of EnrichInputs, with a product catalog of ProductCatalogs loaded and
\* the OpenRouter client configured or not.  In this specification tables holds
\* what the server sets up at start: product_catalog, the values of
\* product_catalog.json in the order of the file, and client.

ProductNames ==
    { <<" ", " ", "N", "e", "w", " ", " ", "S", "a", "m", "s", "u", "n", "g", " ", "T", "V", " ">>,
      <<"a", "r", "i", "e", "l", " ", "2", "k", "g", " ", "P", "a", "c", "k">>,
      <<"L", "e", "g", "o", " ", "s", "e", "t">>,
      <<>>,
      <<"B", "e", "s", "t", " ", "N", "e", "w", " ", "b", "a", "c", "k", "p", "a", "c", "k", " ", "1", ".", "5", " ", "L">> }

\* the optional product_data: nothing, or some of category, brand, description
\* and attributes
ProductData ==
    { EmptyDict,
      [category |-> fashion],
      [category |-> <<"t", "o", "y", "s">>],
      [category |-> <<>>, brand |-> <<>>],
      [brand |-> <<"L", "G">>],
      [brand |-> <<"S", "a", "m", "s", "u", "n", "g">>, description |-> <<"A", " ", "t", "v">>,
       attributes |-> [weight |-> <<"9", "k", "g">>]] }

EnrichInputs ==
    { [product_name |-> n] : n \in ProductNames }
    \cup { [product_name |-> n, product_data |-> d] : n \in ProductNames, d \in ProductData }

ProductCatalogs ==
    { <<>>,
      << [ name |-> <<"S", "a", "m", "s", "u", "n", "g", " ", "T", "V">>,
         brand |-> <<"S", "a", "m", "s", "u", "n", "g">>,
         category |-> electronics,
         price |-> 45000,
         margin_pct |-> 18 ],
         [ name |-> <<"L", "G", " ", "T", "V">>,
         brand |-> <<"L", "G">>,
         category |-> electronics,
         price |-> 42000,
         margin_pct |-> 20 ],
         [ name |-> <<"S", "u", "r", "f", " ", "E", "x", "c", "e", "l", " ", "2", "k", "g">>,
         brand |-> <<"S", "u", "r", "f", " ", "E", "x", "c", "e", "l">>,
         category |-> groceries,
         price |-> 450,
         margin_pct |-> 25 ],
         [ name |-> <<"S", "o", "n", "y", " ", "T", "V">>,
         brand |-> <<"S", "o", "n", "y">>,
         category |-> electronics,
         price |-> 60000,
         margin_pct |-> 22 ],
         [ name |-> <<"M", "i", " ", "T", "V">>,
         brand |-> <<"M", "i">>,
         category |-> electronics,
         price |-> 30000,
         margin_pct |-> 15 ],
         [ name |-> <<"T", "C", "L", " ", "T", "V">>,
         brand |-> <<"T", "C", "L">>,
         category |-> electronics,
         price |-> 28000,
         margin_pct |-> 12 ] >>,
      << [ name |-> <<"S", "A", "M", "S", "U", "N", "G", " ", "t", "v">>,
         brand |-> <<"S", "A", "M", "S", "U", "N", "G">>,
         category |-> electronics,
         price |-> 45000,
         margin_pct |-> 18 ],
         [ category |-> electronics ],
         [ name |-> <<"G", "a", "l", "a", "x", "y", " ", "T", "a", "b">>,
         brand |-> <<"S", "a", "m", "s", "u", "n", "g">>,
         category |-> electronics,
         price |-> 20000,
         margin_pct |-> 10 ],
         [ name |-> <<"T", "i", "d", "e", " ", "1", "k", "g">>,
         brand |-> <<"T", "i", "d", "e">>,
         price |-> 200,
         margin_pct |-> 30 ],
         [ name |-> <<"A", "r", "i", "e", "l", " ", "2", "K", "G", " ", "p", "a", "c", "k">>,
         brand |-> <<"A", "r", "i", "e", "l">>,
         category |-> groceries,
         price |-> 480,
         margin_pct |-> 25 ] >> }

\* what the language model may answer to the categorization prompt
CategoryReplies ==
    { [kind |-> "raise"],
      [kind |-> "text", content |-> <<" ", "E", "l", "e", "c", "t", "r", "o", "n", "i", "c", "s", "\n">>],
      [kind |-> "text", content |-> <<"k", "i", "t", "c", "h", "e", "n", "_", "a", "p", "p", "l", "i", "a", "n", "c", "e", "s">>],
      [kind |-> "text", content |-> <<"t", "o", "y", "s">>] }

\* what it may answer to the description and narrative prompts
TextReplies ==
    { [kind |-> "raise"],
      [kind |-> "text", content |-> <<" ", "A", " ", "f", "i", "n", "e", " ", "p", "r", "o", "d", "u", "c", "t", ".", " ">>] }

Suggestion(name, brand) == [name |-> name, brand |-> brand, reason |-> "similar"]

\* what json.loads may return for its answer to the alternatives prompt: a
\* list of up to four suggestions, an object, a number or a text
AlternativesReplies ==
    { [kind |-> "raise"],
      [kind |-> "json", value |-> [type |-> "list", items |-> <<>>]],
      [kind |-> "json",
       value |-> [type |-> "list",
                  items |-> << Suggestion(<<"L", "G", " ", "T", "V">>, <<"L", "G">>),
                               Suggestion(<<"S", "o", "n", "y", " ", "T", "V">>, <<"S", "o", "n", "y">>) >>]],
      [kind |-> "json",
       value |-> [type |-> "list",
                  items |-> << Suggestion(<<"L", "G", " ", "T", "V">>, <<"L", "G">>),
                               Suggestion(<<"S", "o", "n", "y", " ", "T", "V">>, <<"S", "o", "n", "y">>),
                               Suggestion(<<"M", "i", " ", "T", "V">>, <<"M", "i">>),
                               Suggestion(<<"T", "C", "L", " ", "T", "V">>, <<"T", "C", "L">>) >>]],
      [kind |-> "json", value |-> [type |-> "object"]],
      [kind |-> "json", value |-> [type |-> "number"]],
      [kind |-> "json", value |-> [type |-> "string", items |-> <<"n", "o", "n", "e">>]] }

\* the answers the language model may give to the call of node n
Replies(n) ==
    IF n = "categorize" THEN CategoryReplies
    ELSE IF n = "find_alternatives" THEN AlternativesReplies
    ELSE TextReplies

InitEnrich ==
    /\ OrchIdle
    /\ \E c \in ProductCatalogs, client \in BOOLEAN :
           tables = [product_catalog |-> c, client |-> client]
    /\ stage_in \in EnrichInputs
    /\ stage = enrichment_entry_point
    /\ stage_out = [input |-> stage_in]

\* one node of enrichment_graph runs; a node that raises ends the tool call
EnrichNode ==
    /\ stage \in DOMAIN enrichment_edge
    /\ \E reply \in Replies(stage) :
           stage_out' = enrichment_run_node(stage, stage_out, tables.product_catalog,
                                            tables.client, reply)
    /\ stage' = IF Raised(stage_out') THEN "raised" ELSE enrichment_edge[stage]
    /\ UNCHANGED << orch_vars, stage_in >>

\* enrichProduct returns the fields of the final state
EnrichReturn ==
    /\ stage = "return"
    /\ stage_out' = enrichment_answer(stage_out)
    /\ stage' = "done"
    /\ UNCHANGED << orch_vars, stage_in >>

NextEnrich == EnrichNode \/ EnrichReturn

SpecEnrich == InitEnrich /\ [][NextEnrich]_vars

----------------------------------------------------------------------------
\* Properties of the orchestrator (specification Spec).

Failed == {"failed_forecast", "failed_replenishment", "failed_pricing"}

\* state["workflow_status"] of workflow i; "unset" before the workflow starts
status_of(states, i) == Get(states[i], "workflow_status", "unset")

\* C1: in every run the workflow status starts at "running" and changes at most
\* once, to "completed" or to one "failed_<stage>"; once it is "completed" or
\* "failed_<stage>" no later step changes it.
C1_StatusChangesAtMostOnce ==
    [][ \A i \in Workflows :
          /\ (pc[i] = "start" /\ pc'[i] # "start") => status_of(st', i) = "running"
          /\ status_of(st, i) = "running" =>
                 status_of(st', i) \in {"running", "completed"} \cup Failed
          /\ status_of(st, i) \in {"completed"} \cup Failed =>
                 status_of(st', i) = status_of(st, i) ]_vars

\* a replenishment failure has gone through the pricing node and is still there
C1_Witness ==
    \E i \in Workflows :
        /\ pc[i] = "END"
        /\ status_of(st, i) = "failed_replenishment"
        /\ Len(calls[i]) = 2

\* the stage a tool belongs to, as the error list names it
stage_of == [ getForecast              |-> "Forecasting",
              getReplenishmentDecision |-> "Replenishment",
              getPricingStrategy       |-> "Pricing" ]

failed_status_of == [ getForecast              |-> "failed_forecast",
                      getReplenishmentDecision |-> "failed_replenishment",
                      getPricingStrategy       |-> "failed_pricing" ]

Sections == {"category", "timestamp", "status", "forecast", "replenishment",
             "pricing", "errors"}

\* C2: after an agent call of a workflow has returned an error no agent of a
\* later stage is called in that workflow (the call that failed is its last),
\* and the workflow returns a record with every section and an error list that
\* names the stage that failed.
C2_ShortCircuit ==
    \A i \in Workflows :
        /\ \A k \in 1..Len(calls[i]) :
               calls[i][k].outcome = "error" => k = Len(calls[i])
        /\ \A k \in 1..Len(calls[i]) :
               (calls[i][k].outcome = "error" /\ result[i] # None) =>
                   LET r == Val(result[i])
                   IN  /\ DOMAIN r = Sections
                       /\ r.status = Some(failed_status_of[calls[i][k].tool])
                       /\ Len(r.errors) = 1
                       /\ r.errors[1][1] = stage_of[calls[i][k].tool]

\* the replenishment agent failed after a forecast that succeeded, and the
\* workflow has returned
C2_Witness ==
    \E i \in Workflows :
        /\ result[i] # None
        /\ Len(calls[i]) = 2
        /\ calls[i][1].outcome = "ok"
        /\ calls[i][2].outcome = "error"

\* C3: for a category absent from the sales history the forecast never
\* succeeds and no later agent is called; when the forecasting call returns,
\* the result has status "failed_forecast", no forecast number, and every
\* replenishment and pricing field unset.
C3_UnknownCategoryFailsForecast ==
    \A i \in Workflows :
        categories[i] \notin DOMAIN categories_spec =>
            /\ "error" \in DOMAIN getForecast(categories[i], days_ahead, tables.events,
                                              tables.surge_profiles, now, llm_up[i])
            /\ Len(calls[i]) <= 1
            /\ \A k \in 1..Len(calls[i]) :
                   /\ calls[i][k].tool = "getForecast"
                   /\ calls[i][k].outcome # "ok"
            /\ (result[i] # None /\ calls[i][1].outcome = "error") =>
                   LET r == Val(result[i])
                   IN  /\ r.status = Some("failed_forecast")
                       /\ r.forecast.base = None
                       /\ r.forecast.final = None
                       /\ r.forecast.seasonal_multiplier = None
                       /\ r.forecast.event = None
                       /\ r.replenishment.reorder_qty = None
                       /\ r.replenishment.timing = None
                       /\ r.replenishment.stockout_risk = None
                       /\ r.pricing.current_price = None
                       /\ r.pricing.recommended_price = None
                       /\ r.pricing.change_pct = None
                       /\ r.pricing.type = None
                       /\ Len(r.errors) = 1

\* the workflow of a category without history has returned, its forecasting
\* call answered by the server
C3_Witness ==
    \E i \in Workflows :
        /\ categories[i] \notin DOMAIN categories_spec
        /\ result[i] # None
        /\ calls[i][1].env.transport = "ok"
        /\ calls[i][1].outcome = "error"

\* the stage a failed status names, as the messages of the error list begin
stage_named == [ failed_forecast      |-> "Forecasting",
                 failed_replenishment |-> "Replenishment",
                 failed_pricing       |-> "Pricing" ]

\* the graph of workflow i has returned its final state, and run_full_workflow
\* the record made of it
graph_returned(i) == result[i] # None /\ "errors" \in DOMAIN Val(result[i])

\* C30: in every record made of a final state of the graph the error list is
\* non-empty exactly when the status is a failed_<stage> value; it then holds
\* one message, which begins with the name of that stage, and the error list
\* of a "completed" record is empty.
C30_ErrorListMatchesStatus ==
    \A i \in Workflows :
        graph_returned(i) =>
            /\ Val(result[i]).status \in {Some("completed")} \cup {Some(f) : f \in Failed}
            /\ Val(result[i]).errors # <<>> <=> Val(result[i]).status # Some("completed")
            /\ Val(result[i]).status # Some("completed") =>
                   /\ Len(Val(result[i]).errors) = 1
                   /\ Val(result[i]).errors[1][1]
                          = stage_named[Val(Val(result[i]).status)]
            /\ Val(result[i]).errors = st[i].errors

\* one workflow of the batch has returned "completed" and another a pricing
\* failure
C30_Witness ==
    \E i, j \in Workflows :
        /\ graph_returned(i)
        /\ graph_returned(j)
        /\ Val(result[i]).status = Some("completed")
        /\ Val(result[i]).errors = <<>>
        /\ Val(result[j]).status = Some("failed_pricing")
        /\ Val(result[j]).errors[1][1] = "Pricing"

\* the tools workflow i has called, in order
tools_called(i) == [k \in 1..Len(calls[i]) |-> calls[i][k].tool]

\* C4: in a run where no stage fails the four stage capabilities enrich,
\* forecast, replenish, price are each called exactly once, in that order,
\* before the status becomes "completed".
C4_FourStagesInOrder ==
    \A i \in Workflows :
        status_of(st, i) = "completed" =>
            tools_called(i) = << "enrichProduct", "getForecast",
                                 "getReplenishmentDecision", "getPricingStrategy" >>

\* C5: every value run_full_workflow returns has a status, which is
\* "completed", a "failed_<stage>" or "error", and is "error" exactly when an
\* unexpected exception escaped the graph; it is never "running".
C5_ReturnedStatus ==
    \A i \in Workflows :
        result[i] # None =>
            LET r == Val(result[i])
            IN  /\ "status" \in DOMAIN r
                /\ r.status \in {Some(s) : s \in {"completed", "error"} \cup Failed}
                /\ r.status = Some("error") <=>
                       (Len(calls[i]) > 0 /\ calls[i][Len(calls[i])].outcome = "raise")

\* an exception escaped the replenishment node and the workflow returned
C5_Witness ==
    \E i \in Workflows :
        /\ result[i] # None
        /\ Len(calls[i]) = 2
        /\ calls[i][2].outcome = "raise"
        /\ Val(result[i]).status = Some("error")

\* C6: run_batch_workflow over N categories returns N results, the i-th being
\* the result of the workflow of the i-th category, whatever the order in
\* which the workflows completed.
C6_BatchInInputOrder ==
    batch # None =>
        /\ Len(Val(batch)) = Len(categories)
        /\ \A k \in 1..Len(categories) :
               /\ Val(batch)[k] = Val(result[k])
               /\ Val(batch)[k].category = categories[k]

\* a batch of two different categories has returned, the second workflow
\* having completed first
C6_Witness ==
    /\ batch # None
    /\ order = <<2, 1>>
    /\ categories[1] # categories[2]

\* the environment's answers to the agent calls of workflow i, in order
envs_of(i) == [k \in 1..Len(calls[i]) |-> calls[i][k].env]

\* the state dict of a workflow that runs alone from node n in state `state`
\* and is given the answers envs: it stops where the answers run out
RECURSIVE alone_state(_, _, _, _)
alone_state(n, state, envs, tbl) ==
    IF n = "END" THEN state
    ELSE IF node_skips(n, state) THEN alone_state(edge[n], state, envs, tbl)
    ELSE IF envs = <<>> \/ Head(envs).transport = "raise" THEN state
    ELSE alone_state(edge[n],
                     node_returns(n, state, call_agent(n, state, tbl, Head(envs))),
                     Tail(envs), tbl)

\* what run_full_workflow returns when the workflow runs alone
run_alone(category, days, timestamp, envs, tbl) ==
    IF envs # <<>> /\ envs[Len(envs)].transport = "raise"
    THEN error_result(category)
    ELSE format_result(category,
                       alone_state(entry_point,
                                   initial_state(category, days, timestamp), envs, tbl))

\* C7: workflows of one batch share no mutable state: under every interleaving
\* the record of a workflow is, at every moment, the record the same workflow
\* has when it runs alone with the same answers from its agents, and so is the
\* result it returns; what another workflow does or suffers changes neither.
C7_NoSharedState ==
    \A i \in Workflows :
        started[i] # None =>
            /\ result[i] = None =>
                   st[i] = alone_state(entry_point,
                                       initial_state(categories[i], days_ahead,
                                                     Val(started[i])),
                                       envs_of(i), tables)
            /\ result[i] # None =>
                   Val(result[i]) = run_alone(categories[i], days_ahead,
                                              Val(started[i]), envs_of(i), tables)

\* a workflow completed after the other workflow of its batch, which started
\* first and ran at the same time, had failed
C7_Witness ==
    \E i, j \in Workflows :
        /\ i # j
        /\ result[i] # None /\ result[j] # None
        /\ Val(result[j]).status = Some("failed_forecast")
        /\ Val(result[i]).status = Some("completed")
        /\ order = <<j, i>>
        /\ Len(Val(result[j]).errors) = 1
        /\ Val(result[i]).errors = <<>>

\* the numeric outputs of a formatted result
numeric_outputs(r) ==
    << r.forecast.base, r.forecast.seasonal_multiplier, r.forecast.final,
       r.forecast.event, r.replenishment.reorder_qty, r.replenishment.timing,
       r.replenishment.stockout_risk, r.pricing.recommended_price,
       r.pricing.change_pct, r.pricing.type >>

transports_of(i) == [k \in 1..Len(calls[i]) |-> calls[i][k].env.transport]

\* workflows i and j ran the stages on the same inputs and static tables, with
\* the narratives in their fallback, and both returned from the graph
same_inputs(i, j) ==
    /\ categories[i] = categories[j]
    /\ ~llm_up[i] /\ ~llm_up[j]
    /\ result[i] # None /\ result[j] # None
    /\ transports_of(i) = transports_of(j)
    /\ \A k \in 1..Len(calls[i]) : calls[i][k].outcome # "raise"

\* the calendar day on which the forecasting server answered workflow i
forecast_day(i) == day_of(Val(calls[i][1].env.today))

\* C10, as stated: two runs of the stages on the same inputs and the same
\* static tables, with narrative generation in its fallback, yield the same
\* numeric outputs.
C10_SameInputsSameOutputs ==
    \A i, j \in Workflows :
        same_inputs(i, j) =>
            numeric_outputs(Val(result[i])) = numeric_outputs(Val(result[j]))

\* C10, amended: two runs of the stages on the same inputs and the same static
\* tables, with narrative generation in its fallback, yield the same numeric
\* outputs when the forecasting server reads the same calendar date in both.
C10_SameInputsSameDaySameOutputs ==
    \A i, j \in Workflows :
        (same_inputs(i, j) /\ forecast_day(i) = forecast_day(j)) =>
            numeric_outputs(Val(result[i])) = numeric_outputs(Val(result[j]))

\* two workflows of the same category completed, their forecasts made at two
\* moments of the same day with an event ahead
C10_Witness ==
    \E i, j \in Workflows :
        /\ i # j
        /\ same_inputs(i, j)
        /\ calls[i][1].env.today # calls[j][1].env.today
        /\ forecast_day(i) = forecast_day(j)
        /\ Val(result[i]).status = Some("completed")
        /\ Val(result[i]).forecast.event = Some("Diwali")

\* what the forecasting agent answered workflow i (its first call)
forecast_answer(i) == call_forecasting(categories[i], days_ahead, tables, calls[i][1].env)

\* the forecast succeeded and the replenishment agent then returned an error
replenishment_failed(i) ==
    /\ Len(calls[i]) >= 2
    /\ calls[i][1].outcome = "ok"
    /\ calls[i][2].outcome = "error"

\* C11: when forecasting succeeds and the replenishment stage then fails, the
\* state and the returned record have status "failed_replenishment", carry the
\* numbers the forecasting agent answered, have every replenishment and pricing
\* field unset, and no agent is called again: the two calls are the only ones.
C11_FailedReplenishmentKeepsForecast ==
    \A i \in Workflows :
        replenishment_failed(i) =>
            /\ tools_called(i) = << "getForecast", "getReplenishmentDecision" >>
            /\ status_of(st, i) = "failed_replenishment"
            /\ st[i].base_forecast = forecast_answer(i).base_forecast
            /\ st[i].final_forecast = forecast_answer(i).final_forecast
            /\ st[i].seasonal_multiplier = forecast_answer(i).seasonal_multiplier
            /\ st[i].event = forecast_answer(i).event
            /\ result[i] # None =>
                   LET r == Val(result[i])
                   IN  /\ r.status = Some("failed_replenishment")
                       /\ r.forecast.base = Some(forecast_answer(i).base_forecast)
                       /\ r.forecast.final = Some(forecast_answer(i).final_forecast)
                       /\ r.forecast.seasonal_multiplier =
                              Some(forecast_answer(i).seasonal_multiplier)
                       /\ r.forecast.event = forecast_answer(i).event
                       /\ r.replenishment.reorder_qty = None
                       /\ r.replenishment.timing = None
                       /\ r.replenishment.stockout_risk = None
                       /\ r.replenishment.narrative = None
                       /\ r.pricing.current_price = None
                       /\ r.pricing.recommended_price = None
                       /\ r.pricing.change_pct = None
                       /\ r.pricing.type = None
                       /\ r.pricing.narrative = None

\* the "tv" workflow returned after a Diwali forecast of 18.85 and a
\* replenishment agent that was unavailable
C11_Witness ==
    \E i \in Workflows :
        /\ replenishment_failed(i)
        /\ result[i] # None
        /\ Val(result[i]).forecast.final = Some(Rat(1885, 100))
        /\ Val(result[i]).forecast.event = Some("Diwali")

\* the number of calls workflow i made of a tool
calls_of(i, tool) == Cardinality({k \in 1..Len(calls[i]) : calls[i][k].tool = tool})

\* no agent call of workflow i ended in an exception
every_call_returned(i) == \A k \in 1..Len(calls[i]) : calls[i][k].outcome # "raise"

\* every workflow of the batch has returned, those whose calls all returned with
\* status "completed" or "failed_<stage>"
AllTerminated ==
    \A i \in Workflows :
        /\ result[i] # None
        /\ every_call_returned(i) =>
               Val(result[i]).status \in {Some(s) : s \in {"completed"} \cup Failed}

\* C12: each tool is called at most once per workflow, and when every agent
\* call returns every workflow ends, after at most one call per stage, with
\* status "completed" or "failed_<stage>".
C12_AtMostOneCallPerStageAndTermination ==
    /\ [](\A i \in Workflows :
             /\ Len(calls[i]) <= 3
             /\ \A n \in Nodes : calls_of(i, tool_of[n]) <= 1)
    /\ <>AllTerminated

\* both workflows returned, one completed after its three calls and one failed
\* after its first
C12_Witness ==
    \E i, j \in Workflows :
        /\ result[i] # None /\ result[j] # None
        /\ Val(result[i]).status = Some("completed")
        /\ Len(calls[i]) = 3
        /\ Val(result[j]).status = Some("failed_forecast")
        /\ Len(calls[j]) = 1

\* the three agent calls of workflow i all returned without an error
all_three_ok(i) ==
    /\ tools_called(i) = << "getForecast", "getReplenishmentDecision",
                            "getPricingStrategy" >>
    /\ \A k \in 1..3 : calls[i][k].outcome = "ok"

\* C13: when the forecast, replenishment and pricing agent calls all return
\* without an error, run_full_workflow returns status "completed" with
\* forecast.final, replenishment.reorder_qty and pricing.recommended_price set;
\* and a result with status "completed" comes only from three such calls.
C13_CompletedIffAllStagesOk ==
    \A i \in Workflows :
        result[i] # None =>
            LET r == Val(result[i])
            IN  /\ all_three_ok(i) =>
                       /\ r.status = Some("completed")
                       /\ r.forecast.final # None
                       /\ r.forecast.base # None
                       /\ r.replenishment.reorder_qty # None
                       /\ r.replenishment.timing # None
                       /\ r.pricing.recommended_price # None
                       /\ r.pricing.type # None
                       /\ r.errors = <<>>
                /\ r.status = Some("completed") => all_three_ok(i)

\* the "laptop" workflow returned completed, with a forecast, a reorder
\* quantity and a recommended price
C13_Witness ==
    \E i \in Workflows :
        /\ categories[i] = "laptop"
        /\ result[i] # None
        /\ all_three_ok(i)
        /\ Val(result[i]).status = Some("completed")
        /\ Val(result[i]).forecast.final # None
        /\ Val(result[i]).replenishment.reorder_qty # None
        /\ Val(result[i]).pricing.recommended_price # None

\* the same answers with every narrative call succeeding
with_narratives(envs) == [k \in DOMAIN envs |-> [envs[k] EXCEPT !.llm = TRUE]]

\* the narratives of a formatted result
narratives_of(r) == << r.forecast.narrative, r.replenishment.narrative, r.pricing.narrative >>

\* C14: a workflow whose narrative calls all fail returns what it returns when
\* they succeed, but for the narratives: the same numbers, the same status and
\* the same error list; the narrative of every stage that answered is the
\* substituted text.
C14_NarrativeFailureNotFatal ==
    \A i \in Workflows :
        (result[i] # None /\ ~llm_up[i] /\ every_call_returned(i)) =>
            LET r == Val(result[i])
                r_up == run_alone(categories[i], days_ahead, Val(started[i]),
                                  with_narratives(envs_of(i)), tables)
            IN  /\ numeric_outputs(r) = numeric_outputs(r_up)
                /\ r.status = r_up.status
                /\ r.errors = r_up.errors
                /\ r.forecast.narrative \in {None, Some("Narrative generation failed")}
                /\ r.replenishment.narrative \in
                       {None, Some("Replenishment decision based on demand risk")}
                /\ r.pricing.narrative \in {None, Some("Recommended pricing strategy")}
                /\ r.forecast.narrative = None <=> r_up.forecast.narrative = None
                /\ r.replenishment.narrative = None <=> r_up.replenishment.narrative = None
                /\ r.pricing.narrative = None <=> r_up.pricing.narrative = None

\* a workflow completed with the three narrative calls failing
C14_Witness ==
    \E i \in Workflows :
        /\ result[i] # None
        /\ ~llm_up[i]
        /\ Val(result[i]).status = Some("completed")
        /\ Val(result[i]).errors = <<>>
        /\ narratives_of(Val(result[i])) =
               << Some("Narrative generation failed"),
                  Some("Replenishment decision based on demand risk"),
                  Some("Recommended pricing strategy") >>

\* no event of the calendar is 0 to LookaheadDays days after the clock `today`
no_event_in_window(events, today) ==
    \A k \in 1..Len(events) :
        ~(0 <= days_until(events[k], today) /\ days_until(events[k], today) <= LookaheadDays)

\* C16: when no calendar event lies within the lookahead window, the result of
\* the workflow of a known category has its final forecast equal to its base
\* forecast, seasonal multiplier 1.0, and the string "None" as its event.
C16_NoEventIsStringNone ==
    \A i \in Workflows :
        ( /\ result[i] # None
          /\ Len(calls[i]) >= 1
          /\ calls[i][1].outcome = "ok"
          /\ every_call_returned(i)
          /\ no_event_in_window(tables.events, Val(calls[i][1].env.today)) ) =>
            LET r == Val(result[i])
            IN  /\ r.forecast.final = r.forecast.base
                /\ r.forecast.seasonal_multiplier = Some(RInt(1))
                /\ r.forecast.event = Some("None")

----------------------------------------------------------------------------
\* Properties of the replenishment tool (specification SpecReplenish).

\* C8: the reorder_qty getReplenishmentDecision returns is never negative, and
\* when it is positive it is at least the supplier's minimum_order_quantity.
C8_ReorderQtyBounds ==
    (stage = "done" /\ "reorder_qty" \in DOMAIN stage_out) =>
        /\ stage_out.reorder_qty >= 0
        /\ stage_out.reorder_qty > 0 =>
               stage_out.reorder_qty >= stage_in.supplier.minimum_order_quantity

\* a demand of 100 units against 40 in stock was raised to the minimum of 300
C8_Witness ==
    /\ stage = "done"
    /\ "reorder_qty" \in DOMAIN stage_out
    /\ stage_in.supplier.minimum_order_quantity = 300
    /\ stage_in.forecast.forecasted_demand = RInt(100)
    /\ stage_in.inventory.current_stock = 40
    /\ stage_out.reorder_qty = 300

\* runway = (current stock + in-transit stock) / average daily demand
exact_runway ==
    RDiv(RInt(stage_in.inventory.current_stock + stage_in.inventory.in_transit_stock),
         stage_in.forecast.avg_daily_demand)

\* C19: when the average daily demand is positive the tool answers, and it
\* classifies timing/risk from runway = (current stock + in-transit stock) /
\* average daily demand: "immediate"/"high" when runway < lead time, otherwise
\* "soon"/"medium" when runway < 30, otherwise "defer"/"low".
C19_TimingFromRunway ==
    (stage = "done" /\ RLt(RInt(0), stage_in.forecast.avg_daily_demand)) =>
        /\ "reorder_timing" \in DOMAIN stage_out
        /\ << stage_out.reorder_timing, stage_out.stockout_risk >> =
               IF RLt(exact_runway, RInt(stage_in.supplier.lead_time_days))
               THEN << "immediate", "high" >>
               ELSE IF RLt(exact_runway, RInt(30))
               THEN << "soon", "medium" >>
               ELSE << "defer", "low" >>

\* the tool has answered with a decision
replenishment_answered == stage = "done" /\ "reorder_qty" \in DOMAIN stage_out

\* the safety stock the graph computes for the tool's input
safety_stock_of_input ==
    safety_stock_node(festival_urgency_node(demand_risk_node([input |-> stage_in]))).safety_stock

\* forecasted demand + safety stock - (current stock + in-transit stock)
shortfall ==
    RSub(RAdd(stage_in.forecast.forecasted_demand, RInt(safety_stock_of_input)),
         RInt(stage_in.inventory.current_stock + stage_in.inventory.in_transit_stock))

\* C26, as stated: reorder quantity = max(0, forecasted demand + safety stock -
\* effective stock), effective stock = current + in-transit stock; a positive
\* quantity below the minimum order quantity is raised to it and a quantity of
\* 0 is left at 0.
C26_ReorderQuantityFormula ==
    replenishment_answered =>
        RInt(stage_out.reorder_qty) =
            IF RLt(RInt(0), shortfall)
            THEN RMax(shortfall, RInt(stage_in.supplier.minimum_order_quantity))
            ELSE RInt(0)

\* C26, amended: reorder quantity = max(0, the whole units of (forecasted
\* demand + safety stock - effective stock), the fraction dropped), effective
\* stock = current + in-transit stock; a quantity that is positive after the
\* fraction is dropped and below the minimum order quantity is raised to it,
\* and a quantity of 0 is left at 0.
C26_ReorderQuantityInWholeUnits ==
    replenishment_answered =>
        stage_out.reorder_qty =
            IF Trunc(shortfall) > 0
            THEN IntMax(Trunc(shortfall), stage_in.supplier.minimum_order_quantity)
            ELSE 0

\* a demand of 36.5 with a safety stock of 4 against 40 in stock: the shortfall
\* of half a unit is dropped and nothing is ordered, the minimum being 50
C26_Witness ==
    /\ replenishment_answered
    /\ stage_in.forecast.forecasted_demand = Rat(73, 2)
    /\ safety_stock_of_input = 4
    /\ stage_in.inventory.current_stock = 40
    /\ stage_in.inventory.in_transit_stock = 0
    /\ stage_in.supplier.minimum_order_quantity = 50
    /\ shortfall = Rat(1, 2)
    /\ stage_out.reorder_qty = 0

\* the safety stock node has run
safety_stock_computed == "safety_stock" \in DOMAIN stage_out

\* 1.1 / 1.25 / 1.4 for low / medium / high
claimed_volatility_multiplier ==
    LET volatility == stage_in.forecast.demand_volatility
    IN  IF volatility = "low" THEN Rat(11, 10)
        ELSE IF volatility = "medium" THEN Rat(5, 4)
        ELSE Rat(7, 5)

\* 1.2 exactly when days-to-event is known and at most the lead time, else 1.0
claimed_event_multiplier ==
    IF /\ stage_in.forecast.event.days_to_event # None
       /\ Val(stage_in.forecast.event.days_to_event) <= stage_in.supplier.lead_time_days
    THEN Rat(6, 5)
    ELSE RInt(1)

\* average daily demand x lead time x volatility multiplier x event multiplier
safety_product ==
    RMul(RMul(RMul(stage_in.forecast.avg_daily_demand,
                   RInt(stage_in.supplier.lead_time_days)),
              claimed_volatility_multiplier),
         claimed_event_multiplier)

\* C27, as stated: safety stock = average daily demand x lead time x volatility
\* multiplier x event multiplier, the volatility multiplier being 1.1 / 1.25 /
\* 1.4 for low / medium / high and the event multiplier 1.2 exactly when the
\* days to the event are known and at most the supplier lead time, else 1.0.
C27_SafetyStockIsProduct ==
    safety_stock_computed =>
        /\ stage_out.volatility_multiplier = claimed_volatility_multiplier
        /\ stage_out.festival_multiplier = claimed_event_multiplier
        /\ RInt(stage_out.safety_stock) = safety_product

\* C27, amended: safety stock = that product rounded to the nearest whole
\* number, a half going to the even neighbour; the multipliers are as stated.
C27_SafetyStockIsRoundedProduct ==
    safety_stock_computed =>
        /\ stage_in.forecast.demand_volatility \in {"low", "medium", "high"}
        /\ stage_out.volatility_multiplier = claimed_volatility_multiplier
        /\ stage_out.festival_multiplier = claimed_event_multiplier
        /\ stage_out.safety_stock = Round(safety_product, 1)[1]

\* an event 10 days ahead with a lead time of 10 days, low volatility and a
\* daily demand of 0.375: 0.375 x 10 x 1.1 x 1.2 = 4.95, safety stock 5
C27_Witness ==
    /\ safety_stock_computed
    /\ stage_in.forecast.avg_daily_demand = Rat(3, 8)
    /\ stage_in.supplier.lead_time_days = 10
    /\ stage_in.forecast.demand_volatility = "low"
    /\ stage_in.forecast.event.days_to_event = Some(10)
    /\ stage_out.festival_multiplier = Rat(6, 5)
    /\ safety_product = Rat(99, 20)
    /\ stage_out.safety_stock = 5

----------------------------------------------------------------------------
\* Properties of the pricing tool (specification SpecPricing).

\* min_price = cost / (1 - min_margin) for the tool's input and the tables loaded
floor_price ==
    min_price_of(load_category_data_node([input |-> stage_in], tables.elasticity_data,
                                         tables.competitor_data))

\* the tool has answered with a recommendation
pricing_answered == stage = "done" /\ "recommended_price" \in DOMAIN stage_out

\* the category data the tool loads for its input
loaded ==
    load_category_data_node([input |-> stage_in], tables.elasticity_data,
                            tables.competitor_data)

\* inventory_level / forecasted_demand exceeds 2.0
overstocked ==
    /\ RLt(RInt(0), stage_in.forecasted_demand)
    /\ RLt(RMul(RInt(2), stage_in.forecasted_demand), stage_in.inventory_level)

\* the rate of the clearance discount: 8%, or max_discount when that is lower
clearance_rate == RMin(Rat(8, 100), loaded.max_discount)

\* the current price less the clearance discount
clearance_price == RMul(stage_in.current_price, RSub(RInt(1), clearance_rate))

\* C18, as stated: for every pricing input whose inventory_level /
\* forecasted_demand ratio exceeds 2.0 the tool returns type "clearance" and a
\* recommended price strictly below the current price, with a discount of at
\* most the category's max_discount.
C18_OverstockedIsClearance ==
    (stage = "done" /\ overstocked) =>
        /\ "recommendation_type" \in DOMAIN stage_out
        /\ stage_out.recommendation_type = "clearance"
        /\ RLt(stage_out.recommended_price, stage_in.current_price)
        /\ RLe(RNeg(RMul(loaded.max_discount, RInt(100))), stage_out.price_change_pct)

\* C18, amended: for every pricing input whose ratio exceeds 2.0, whose price
\* is not more than 15% above the competitors' (the competitor discount takes
\* precedence) and whose clearance price is not below the margin floor (the
\* floor takes precedence), the tool returns type "clearance", a recommended
\* price strictly below the current price, and a price change of minus
\* min(8%, max_discount), which is at most the category's max_discount.
C18_OverstockedIsClearanceUnlessOverruled ==
    ( /\ stage = "done"
      /\ overstocked
      /\ RLe(loaded.price_difference_pct, RInt(15))
      /\ RLt(loaded.min_margin, RInt(1))
      /\ RLe(min_price_of(loaded), clearance_price) ) =>
        /\ pricing_answered
        /\ stage_out.recommendation_type = "clearance"
        /\ RLt(stage_out.recommended_price, stage_in.current_price)
        /\ stage_out.recommended_price = Round(clearance_price, 100)
        /\ stage_out.price_change_pct = RNeg(RMul(clearance_rate, RInt(100)))
        /\ RLe(RNeg(RMul(loaded.max_discount, RInt(100))), stage_out.price_change_pct)

\* "tv" at 28000 with 300 in stock against a demand of 100 (ratio 3.0), a
\* max_discount of 5% and no competitor pressure: clearance at 26600
C18_Witness ==
    /\ pricing_answered
    /\ overstocked
    /\ stage_in.category = "tv"
    /\ stage_in.current_price = RInt(28000)
    /\ stage_in.forecasted_demand = RInt(100)
    /\ stage_in.inventory_level = RInt(300)
    /\ loaded.max_discount = Rat(1, 20)
    /\ stage_out.recommendation_type = "clearance"
    /\ stage_out.recommended_price = RInt(26600)
    /\ stage_out.price_change_pct = RInt(-5)

\* C9: the recommended price getPricingStrategy returns is never below the
\* floor price min_price = cost / (1 - min_margin), with
\* cost = current_price * (1 - base_margin).
C9_NeverBelowFloor ==
    (stage = "done" /\ "recommended_price" \in DOMAIN stage_out) =>
        RLe(floor_price, stage_out.recommended_price)

\* the state pricing_decision_node receives: the category data with the
\* competitor position
analysed == analyze_competitor_position_node(loaded)

\* inventory_level / forecasted_demand, 1.0 when no demand is forecast
inventory_ratio == inventory_ratio_of(loaded.inventory_level, loaded.forecasted_demand)

\* the ratio is neither above 2.0 nor below 0.5
balanced == RLe(Rat(1, 2), inventory_ratio) /\ RLe(inventory_ratio, RInt(2))

\* the recommendation after the competitor rule
competitor_decision == competitor_factor(analysed)

\* neither the target-profit rule nor the floor changes the recommendation of
\* the competitor rule
no_other_rule ==
    /\ target_profit_factor(analysed, competitor_decision) = competitor_decision
    /\ RLt(loaded.min_margin, RInt(1))
    /\ price_floor(analysed, competitor_decision) = competitor_decision

\* C21: with balanced inventory and no other rule firing, the recommended price
\* goes down when our price is more than 15% above the competitor average
\* (type "discount") and when it is more than 5% but at most 15% above, and
\* goes up when it is more than 5% below (type "increase").
C21_CompetitorSignalMovesPrice ==
    (stage = "done" /\ balanced /\ no_other_rule) =>
        /\ pricing_answered
        /\ RLt(RInt(15), loaded.price_difference_pct) =>
               /\ stage_out.recommendation_type = "discount"
               /\ RLt(stage_out.recommended_price, stage_in.current_price)
        /\ ( RLt(RInt(5), loaded.price_difference_pct)
             /\ RLe(loaded.price_difference_pct, RInt(15)) ) =>
               RLt(stage_out.recommended_price, stage_in.current_price)
        /\ RLt(loaded.price_difference_pct, RInt(-5)) =>
               /\ stage_out.recommendation_type = "increase"
               /\ RLt(stage_in.current_price, stage_out.recommended_price)

\* inventory_level / forecasted_demand is below 0.5, the forecast being positive
understocked ==
    /\ RLt(RInt(0), stage_in.forecasted_demand)
    /\ RLt(RMul(RInt(2), stage_in.inventory_level), stage_in.forecasted_demand)

\* the rate of the premium increase: 5%, or the target profit when one is set
\* and lower, or 3% when none is set
premium_rate ==
    RMin(Rat(5, 100),
         IF RLt(RInt(0), loaded.target_profit_pct)
         THEN RDiv(loaded.target_profit_pct, RInt(100))
         ELSE Rat(3, 100))

\* the current price with the premium increase
premium_price == RMul(stage_in.current_price, RAdd(RInt(1), premium_rate))

inventory_decision == inventory_factor(analysed, competitor_decision)

\* the recommendation after the target-profit rule
target_profit_decision == target_profit_factor(analysed, inventory_decision)

\* the target-profit rule changed the recommendation and set type "optimize"
optimized ==
    /\ target_profit_decision # inventory_decision
    /\ "recommendation_type" \in DOMAIN target_profit_decision
    /\ target_profit_decision.recommendation_type = "optimize"

\* C23: the target-profit rule changes the recommendation only when
\* target_profit_pct > 0 and the type is still "maintain" after the competitor
\* and inventory rules; when it yields type "optimize", the price change is an
\* increase of at most 10% of the current price.
C23_OptimizeIsIncreaseOfAtMostTenPercent ==
    stage = "done" =>
        /\ target_profit_decision # inventory_decision =>
               /\ RLt(RInt(0), loaded.target_profit_pct)
               /\ inventory_decision.recommendation_type = "maintain"
        /\ optimized =>
               /\ RLt(RInt(0), target_profit_decision.price_change_pct)
               /\ RLe(target_profit_decision.price_change_pct, RInt(10))
               /\ RLt(stage_in.current_price, target_profit_decision.recommended_price)
               /\ RLe(target_profit_decision.recommended_price,
                      RMul(stage_in.current_price, Rat(11, 10)))

\* the adjustment rules computed a price and the floor price is defined
price_computed ==
    /\ "recommended_price" \in DOMAIN target_profit_decision
    /\ RLt(loaded.min_margin, RInt(1))

\* the percent change from the current price to the floor price
floor_change_pct ==
    RMul(RDiv(RSub(min_price_of(loaded), stage_in.current_price), stage_in.current_price),
         RInt(100))

\* C24: whenever the price computed by the adjustment rules is below the floor
\* price, the tool returns exactly the floor price with type "floor" and the
\* percent change from the current price to the floor price; whenever the
\* computed price is at or above the floor, the type is not "floor" and the
\* computed price is returned unchanged.
C24_FloorClamp ==
    (stage = "done" /\ price_computed) =>
        /\ pricing_answered
        /\ IF RLt(target_profit_decision.recommended_price, min_price_of(loaded))
           THEN /\ stage_out.recommended_price = min_price_of(loaded)
                /\ stage_out.recommendation_type = "floor"
                /\ stage_out.price_change_pct = Round(floor_change_pct, 100)
           ELSE /\ stage_out.recommendation_type # "floor"
                /\ stage_out.recommended_price = target_profit_decision.recommended_price

\* the floor replaced the price computed by the adjustment rules
floor_fired ==
    /\ price_computed
    /\ RLt(target_profit_decision.recommended_price, min_price_of(loaded))

\* the price change in percent of the final price: from the floor price when
\* the floor fired, of the adjustment rules otherwise
final_change_pct ==
    IF floor_fired THEN floor_change_pct ELSE target_profit_decision.price_change_pct

\* C25, as stated: in every pricing result the expected demand change equals
\* the category's elasticity times the returned price change percent, and a
\* zero price change gives a zero expected demand change.
C25_DemandChangeIsElasticityTimesPriceChange ==
    pricing_answered =>
        /\ stage_out.expected_demand_change =
               RMul(loaded.elasticity, stage_out.price_change_pct)
        /\ RIsZero(stage_out.price_change_pct) => RIsZero(stage_out.expected_demand_change)

\* C25, amended: in every pricing result the expected demand change equals the
\* category's elasticity times the final price change percent (after any floor
\* clamp) rounded to one decimal, the returned price change percent being that
\* final change rounded to two decimals; a zero price change gives a zero
\* expected demand change.
C25_DemandChangeIsRoundedElasticityTimesFinalChange ==
    pricing_answered =>
        /\ stage_out.price_change_pct = Round(final_change_pct, 100)
        /\ stage_out.expected_demand_change =
               Round(RMul(loaded.elasticity, final_change_pct), 10)
        /\ RIsZero(stage_out.price_change_pct) => RIsZero(stage_out.expected_demand_change)

\* "tv" at 28000 with elasticity -1.5, more than 15% above the competitors: the
\* discount of 10% is clamped to the floor 26352.94, a change of -5.88%, and
\* the expected demand change is +8.8%, not the +15% of the discount
C25_Witness ==
    /\ pricing_answered
    /\ floor_fired
    /\ stage_in.current_price = RInt(28000)
    /\ loaded.elasticity = Rat(-3, 2)
    /\ target_profit_decision.price_change_pct = RInt(-10)
    /\ stage_out.recommendation_type = "floor"
    /\ stage_out.price_change_pct = Rat(-588, 100)
    /\ stage_out.expected_demand_change = Rat(88, 10)

----------------------------------------------------------------------------
\* Properties of the forecasting tool (specification SpecForecast).

\* the answers getForecast gave that carry a forecast
forecasts == {k \in 1..Len(stage_out) : "error" \notin DOMAIN stage_out[k].answer}

\* the arithmetic mean of the last MovingAverageDays records of s, of all of
\* them when there are fewer
trailing_mean(s) ==
    LET n == IF Len(s) < MovingAverageDays THEN Len(s) ELSE MovingAverageDays
    IN  Rat(SumSeq([k \in 1..n |-> s[Len(s) - n + k]]), n)

\* history lengths below, at and above the window
ShortHistories == {1, 2, 29, 30, 31}

\* C15, as stated: for a category of the sales history the final forecast is
\* round(base * seasonal_multiplier * surge_factor, 2) with base the arithmetic
\* mean of its last 30 sales records.
C15_FinalFromMean ==
    \A k \in forecasts :
        LET a == stage_out[k].answer
        IN  a.final_forecast =
                Round(RMul(RMul(trailing_mean(sales_history[stage_in.category]),
                                a.seasonal_multiplier),
                           a.historical_surge_factor), 100)

\* C15, amended: every category of the sales history gets a forecast, whose
\* base is the arithmetic mean of its last 30 sales records (of all of them
\* when fewer than 30 exist) rounded to two decimals, and whose final forecast
\* is round(base * seasonal_multiplier * surge_factor, 2) for that rounded base.
C15_FinalFromRoundedMean ==
    /\ \A k \in 1..Len(stage_out) :
           stage_in.category \in DOMAIN sales_history <=> k \in forecasts
    /\ \A k \in forecasts :
           LET a == stage_out[k].answer
           IN  /\ a.base_forecast =
                      Round(trailing_mean(sales_history[stage_in.category]), 100)
               /\ a.final_forecast =
                      Round(RMul(RMul(a.base_forecast, a.seasonal_multiplier),
                                 a.historical_surge_factor), 100)
    /\ stage_in.category \in DOMAIN sales_history =>
           \A n \in ShortHistories :
               LET rows == SubSeq(sales_history[stage_in.category], 1, n)
               IN  moving_average(rows) = Some(Round(trailing_mean(rows), 100))

\* "phone" before Diwali: the mean 52/3 is rounded to 17.33 and the forecast
\* is round(17.33 * 1.45 * 1.5, 2) = 37.69
C15_Witness ==
    \E k \in forecasts :
        /\ stage_in.category = "phone"
        /\ stage_out[k].answer.event = Some("Diwali")
        /\ stage_out[k].answer.historical_surge_factor = Rat(3, 2)
        /\ stage_out[k].answer.base_forecast = Rat(1733, 100)
        /\ stage_out[k].answer.final_forecast = Rat(3769, 100)

\* the events of the calendar that are 0 to LookaheadDays days after `today`
upcoming(events, today) ==
    { k \in 1..Len(events) :
          0 <= days_until(events[k], today) /\ days_until(events[k], today) <= LookaheadDays }

\* C17: the seasonal multiplier is that of the nearest upcoming event: among the
\* events 0 to 180 days after today the one with the smallest days-until is
\* reported and its multiplier applied, whatever the order of the calendar;
\* with no event in that window the multiplier is 1.0 and no event is reported.
C17_NearestUpcomingEvent ==
    \A c \in forecasts :
        LET a == stage_out[c].answer
            today == stage_out[c].today
            window == upcoming(tables.events, today)
        IN  IF window = {}
            THEN a.event = None /\ a.seasonal_multiplier = RInt(1)
            ELSE \E k \in window :
                     /\ \A j \in window : days_until(tables.events[k], today)
                                              <= days_until(tables.events[j], today)
                     /\ a.event = Some(tables.events[k].name)
                     /\ a.seasonal_multiplier = tables.events[k].multiplier

\* the numbers and the event of an answer of getForecast; the error of an
\* answer that carries no forecast
forecast_numbers(a) ==
    IF "error" \in DOMAIN a THEN << a.error >>
    ELSE << a.base_forecast, a.seasonal_multiplier, a.historical_surge_factor,
            a.event, a.final_forecast >>

\* C20: the forecast does not depend on the horizon: two calls for the same
\* category, with the same static data, on the same date return the same base,
\* multipliers, event and final forecast whatever their horizons.
C20_HorizonIndependent ==
    \A j, k \in 1..Len(stage_out) :
        day_of(stage_out[j].today) = day_of(stage_out[k].today) =>
            forecast_numbers(stage_out[j].answer) = forecast_numbers(stage_out[k].answer)

\* "laptop" forecast for 30 and for 60 days on the same day before Diwali:
\* 10.1 both times
C20_Witness ==
    \E j, k \in forecasts :
        /\ stage_in.category = "laptop"
        /\ stage_out[j].days_ahead = 30
        /\ stage_out[k].days_ahead = 60
        /\ day_of(stage_out[j].today) = day_of(stage_out[k].today)
        /\ stage_out[j].answer.event = Some("Diwali")
        /\ stage_out[j].answer.final_forecast = Rat(101, 10)
        /\ stage_out[k].answer.final_forecast = Rat(101, 10)

\* ---------------------------------------------------------------------
\* Properties of the catalog enricher tool (specification SpecEnrich)
\* ---------------------------------------------------------------------

\* enrichProduct has returned its answer
enriched == stage = "done" /\ "category" \in DOMAIN stage_out

in_valid_categories(category) ==
    \E k \in 1..Len(valid_categories) : valid_categories[k] = category

said(message) ==
    \E k \in 1..Len(stage_out.reasoning) : stage_out.reasoning[k] = message

\* the caller gave a category of its own in product_data
category_supplied ==
    /\ "product_data" \in DOMAIN stage_in
    /\ "category" \in DOMAIN stage_in.product_data
    /\ Truthy(stage_in.product_data.category)

\* C28: every answer of enrichProduct carries a category of the fixed set,
\* and the category is "general" when the call of the language model failed
\* or, without a language model, when no keyword occurs in the cleaned name
C28_CategoryInFixedSet ==
    enriched =>
        /\ in_valid_categories(stage_out.category)
        /\ said("categorization failed") => stage_out.category = general
        /\ (said("fallback categorization")
              /\ fallback_category(lower(stage_out.product_name)) = general)
               => stage_out.category = general

\* what does hold: the category is of the fixed set unless the caller
\* supplied one, which is returned as it was given
C28_CategoryInFixedSetUnlessSupplied ==
    enriched =>
        /\ ~category_supplied => in_valid_categories(stage_out.category)
        /\ category_supplied => stage_out.category = stage_in.product_data.category
        /\ said("categorization failed") => stage_out.category = general

C28_SuppliedCategoryOutsideSet ==
    /\ enriched
    /\ category_supplied
    /\ ~in_valid_categories(stage_out.category)

\* the answer's alternatives are those of the catalog: the search of the
\* catalog for the answer's category, brand and cleaned name found some, so
\* that the language model was not asked
from_catalog ==
    search_in_catalog(tables.product_catalog, stage_out.category, stage_out.brand,
                      stage_out.product_name) # <<>>

\* C29: enrichProduct answers with at most three alternatives, and every
\* alternative taken from the catalog has the answer's category, a brand
\* other than the answer's brand and a name other than the cleaned name
C29_AtMostThreeAlternativesOfCatalog ==
    enriched =>
        /\ Len(stage_out.alternatives) <= 3
        /\ from_catalog =>
               \A k \in 1..Len(stage_out.alternatives) :
                   /\ stage_out.alternatives[k].category = stage_out.category
                   /\ stage_out.alternatives[k].brand # stage_out.brand
                   /\ stage_out.alternatives[k].name # stage_out.product_name

\* "Samsung TV" against a catalog with four television sets of other brands,
\* after its own entry: the first three of them are returned
C29_Witness ==
    /\ enriched
    /\ stage_out.product_name = <<"S", "a", "m", "s", "u", "n", "g", " ", "T", "V">>
    /\ stage_out.brand = <<"S", "a", "m", "s", "u", "n", "g">>
    /\ stage_out.category = electronics
    /\ Len(matching_products(tables.product_catalog, stage_out.category,
                             stage_out.brand, stage_out.product_name)) = 4
    /\ Len(stage_out.alternatives) = 3
    /\ stage_out.alternatives[1].brand = <<"L", "G">>
    /\ stage_out.alternatives[3].brand = <<"M", "i">>

====
